---- MODULE Spec2Model ----
(***************************************************************************)
(* Model of the OBJ/MTL loader of go-webgpu-examples                       *)
(* (learn-wgpu/beginner/tutorial9-models/objloader/objloader.go) and of    *)
(* the places of tutorial9-models/resources.go that consume its result.    *)
(*                                                                         *)
(* Text is modelled at the granularity the code looks at it:               *)
(*   - a raw line is the sequence of its chunks between single spaces      *)
(*     (so two consecutive spaces give an empty chunk);                    *)
(*   - a chunk is the sequence of its fields between '/' characters        *)
(*     (so "1/2/3" is <<"1","2","3">> and "v" is <<"v">>);                 *)
(*   - a float32 value is kept as an integer number of tenths.             *)
(***************************************************************************)
EXTENDS Integers, Sequences, FiniteSets, TLC

\* ------------------------------------------------------------------ bounds
\* Lines LoadObj scans before the stream must end.
MaxLines == 5
\* Entries each of the position / normal / texcoord pools may hold.
MaxPool == 2
\* Faces the face list may hold.
MaxFaces == 2
\* Lines LoadObj scans of a well-formed scene before the stream must end.
MaxSceneLines == 6
\* Lines loadMtl scans before the stream must end.
MaxMtlLines == 4
\* LoadObj calls that run at the same time.
MaxCalls == 2
\* Passes of a render loop before it must be left.
MaxFrames == 2
\* Handles a State may make after InitState before resizing stops.
MaxHandles == 3
\* Calls of Destroy on one State or Texture.
MaxDestroys == 2

\* ------------------------------------------------------------- text helpers
\* A chunk holding one field.
W(s) == <<s>>
\* A raw line whose chunks are single-field words.
Words(ss) == [i \in DOMAIN ss |-> W(ss[i])]
\* The empty chunk (what lies between two consecutive spaces).
Empty == W("")

RECURSIVE DropLeadingEmpty(_)
DropLeadingEmpty(cs) ==
    IF cs # <<>> /\ Head(cs) = Empty THEN DropLeadingEmpty(Tail(cs)) ELSE cs

RECURSIVE DropTrailingEmpty(_)
DropTrailingEmpty(cs) ==
    IF cs # <<>> /\ cs[Len(cs)] = Empty
    THEN DropTrailingEmpty(SubSeq(cs, 1, Len(cs) - 1))
    ELSE cs

\* TrimSplit that collapses runs of spaces, as strings.Fields does.
TrimSplit_Collapse(text) ==
    LET t == SelectSeq(text, LAMBDA c : c # Empty)
    IN  IF t = <<>> THEN <<Empty>> ELSE t

\* strings.Split(strings.TrimSpace(text), " "): leading and trailing spaces
\* go, inner runs of spaces stay as empty chunks, and the empty string
\* splits into one empty chunk.
TrimSplit(text) ==
    LET t == DropTrailingEmpty(DropLeadingEmpty(text))
    IN  IF t = <<>> THEN <<Empty>> ELSE t

\* strings.SplitN(chunk, "/", 3): at most three parts, the third keeping the
\* rest of the chunk, slashes included ("/" stands for such a rest).
SplitN3(chunk) ==
    IF Len(chunk) <= 3 THEN chunk ELSE <<chunk[1], chunk[2], "/">>

\* The decimal literals of the model and their values in tenths.
FloatLit == [s \in {"0", "1", "2", "0.5"} |->
                CASE s = "0" -> 0 [] s = "1" -> 10 [] s = "2" -> 20 [] s = "0.5" -> 5]
\* The integer literals of the model.
IntLit == [s \in {"0", "1", "2", "3", "256"} |->
              CASE s = "0" -> 0 [] s = "1" -> 1 [] s = "2" -> 2 [] s = "3" -> 3
                [] s = "256" -> 256]

\* strconv.ParseFloat on a chunk, narrowed to float32.
parseFloat(chunk) ==
    IF Len(chunk) = 1 /\ chunk[1] \in DOMAIN FloatLit
    THEN [ok |-> TRUE, val |-> FloatLit[chunk[1]]]
    ELSE [ok |-> FALSE, val |-> 0]

\* parse3Float: the three values, or the first failure.
parse3Float(xs, ys, zs) ==
    LET x == parseFloat(xs)
        y == parseFloat(ys)
        z == parseFloat(zs)
    IN  IF x.ok /\ y.ok /\ z.ok
        THEN [ok |-> TRUE, val |-> <<x.val, y.val, z.val>>]
        ELSE [ok |-> FALSE, val |-> <<0, 0, 0>>]

\* strconv.ParseInt(field, 10, 64) on one '/'-separated field.
parseInt(field) ==
    IF field \in DOMAIN IntLit
    THEN [ok |-> TRUE, val |-> IntLit[field]]
    ELSE [ok |-> FALSE, val |-> 0]

\* strconv.ParseUint(chunk, 10, 8): a value that fits 8 bits.
parseUint8(chunk) ==
    IF Len(chunk) = 1 /\ chunk[1] \in DOMAIN IntLit /\ IntLit[chunk[1]] <= 255
    THEN [ok |-> TRUE, val |-> IntLit[chunk[1]]]
    ELSE [ok |-> FALSE, val |-> 0]

\* An error value made by fmt.Errorf("<msg> at line %d", line).
ErrAt(msg, line) == [msg |-> msg, line |-> line]
\* The nil error.
Nil == [msg |-> "nil"]
\* What fs.FS.Open returns for a path the file system does not hold.
ErrNotExist == [msg |-> "file does not exist"]

\* ------------------------------------------------------------- exportModel
\* uint32(next) for next = len(indexMap): a map size is never negative, and
\* below 2^32 (a face list of more than a billion corners) the conversion
\* keeps the value.
Uint32(n) == n

NewModel(name) ==
    [Name |-> name, MaterialName |-> "", Vertices |-> <<>>,
     TextureCoords |-> <<>>, Normals |-> <<>>, Indices |-> <<>>]

InRange(i, pool) == 0 <= i /\ i < Len(pool)

\* ExportCorner without the lookup in the index map: every corner appends a
\* new vertex.
ExportCorner_NoReuse(acc, idx, verts, normals, texCoords) ==
    LET vIdx  == idx[1] - 1
        vtIdx == idx[2] - 1
        vnIdx == idx[3] - 1
    IN  IF acc.panicked THEN acc
        ELSE IF ~(InRange(vIdx, verts) /\ InRange(vnIdx, normals)
                  /\ InRange(vtIdx, texCoords))
        THEN [acc EXCEPT !.panicked = TRUE]
        ELSE LET next == Len(acc.model.Vertices)
             IN  [acc EXCEPT
                    !.model.Vertices = Append(@, verts[vIdx + 1]),
                    !.model.Normals = Append(@, normals[vnIdx + 1]),
                    !.model.TextureCoords = Append(@, texCoords[vtIdx + 1]),
                    !.model.Indices = Append(@, Uint32(next)),
                    !.indexMap = (idx :> Uint32(next)) @@ @]

\* ExportCorner that forgets to append the normal of a new vertex.
ExportCorner_NoNormal(acc, idx, verts, normals, texCoords) ==
    LET vIdx  == idx[1] - 1
        vtIdx == idx[2] - 1
        vnIdx == idx[3] - 1
    IN  IF acc.panicked THEN acc
        ELSE IF idx \in DOMAIN acc.indexMap
        THEN [acc EXCEPT !.model.Indices = Append(@, acc.indexMap[idx])]
        ELSE IF ~(InRange(vIdx, verts) /\ InRange(vnIdx, normals)
                  /\ InRange(vtIdx, texCoords))
        THEN [acc EXCEPT !.panicked = TRUE]
        ELSE LET next == Cardinality(DOMAIN acc.indexMap)
             IN  [acc EXCEPT
                    !.model.Vertices = Append(@, verts[vIdx + 1]),
                    !.model.TextureCoords = Append(@, texCoords[vtIdx + 1]),
                    !.model.Indices = Append(@, Uint32(next)),
                    !.indexMap = (idx :> Uint32(next)) @@ @]

\* ExportCorner that numbers the vertices from 1.
ExportCorner_FromOne(acc, idx, verts, normals, texCoords) ==
    LET vIdx  == idx[1] - 1
        vtIdx == idx[2] - 1
        vnIdx == idx[3] - 1
    IN  IF acc.panicked THEN acc
        ELSE IF idx \in DOMAIN acc.indexMap
        THEN [acc EXCEPT !.model.Indices = Append(@, acc.indexMap[idx])]
        ELSE IF ~(InRange(vIdx, verts) /\ InRange(vnIdx, normals)
                  /\ InRange(vtIdx, texCoords))
        THEN [acc EXCEPT !.panicked = TRUE]
        ELSE LET next == Cardinality(DOMAIN acc.indexMap) + 1
             IN  [acc EXCEPT
                    !.model.Vertices = Append(@, verts[vIdx + 1]),
                    !.model.Normals = Append(@, normals[vnIdx + 1]),
                    !.model.TextureCoords = Append(@, texCoords[vtIdx + 1]),
                    !.model.Indices = Append(@, Uint32(next)),
                    !.indexMap = (idx :> Uint32(next)) @@ @]

\* One iteration of the inner loop of exportModel on corner idx. acc holds
\* the model built so far, the index map, and whether an index expression
\* has panicked (Go's run-time "index out of range").
ExportCorner(acc, idx, verts, normals, texCoords) ==
    LET vIdx  == idx[1] - 1
        vtIdx == idx[2] - 1
        vnIdx == idx[3] - 1
        m     == acc.model
    IN  IF acc.panicked THEN acc
        ELSE IF idx \in DOMAIN acc.indexMap
        THEN [acc EXCEPT !.model.Indices = Append(@, acc.indexMap[idx])]
        ELSE IF ~(InRange(vIdx, verts) /\ InRange(vnIdx, normals)
                  /\ InRange(vtIdx, texCoords))
        THEN [acc EXCEPT !.panicked = TRUE]
        ELSE LET next == Cardinality(DOMAIN acc.indexMap)
             IN  [acc EXCEPT
                    !.model.Vertices = Append(@, verts[vIdx + 1]),
                    !.model.Normals = Append(@, normals[vnIdx + 1]),
                    !.model.TextureCoords = Append(@, texCoords[vtIdx + 1]),
                    !.model.Indices = Append(@, Uint32(next)),
                    !.indexMap = (idx :> Uint32(next)) @@ @]

\* The corners of a face list in the order the two loops visit them.
RECURSIVE Corners(_)
Corners(faces) ==
    IF faces = <<>> THEN <<>>
    ELSE <<faces[1][1], faces[1][2], faces[1][3]>> \o Corners(Tail(faces))

RECURSIVE ExportLoop(_, _, _, _, _)
ExportLoop(acc, corners, verts, normals, texCoords) ==
    IF corners = <<>> THEN acc
    ELSE ExportLoop(ExportCorner(acc, Head(corners), verts, normals, texCoords),
                    Tail(corners), verts, normals, texCoords)

\* exportModel: [panicked, model]; model is meaningful when not panicked.
exportModel(name, verts, normals, texCoords, faces) ==
    LET r == ExportLoop([model |-> NewModel(name), indexMap |-> << >>,
                         panicked |-> FALSE],
                        Corners(faces), verts, normals, texCoords)
    IN  [panicked |-> r.panicked, model |-> r.model]

\* ------------------------------------------------------------------ streams
\* A call frame records the stream it opened in two fields: file is "none"
\* before dir.Open succeeded, then "open", then "closed"; closes counts the
\* calls of f.Close().
Close(st) == [st EXCEPT !.file = "closed", !.closes = @ + 1]

\* A call that leaves without running its deferred call.
RunDefers_Forgotten(st) == st

\* The deferred calls of a call that leaves, by return or by panic:
\* f.Close(), registered once the open has succeeded.
RunDefers(st) == IF st.file = "none" THEN st ELSE Close(st)

\* ------------------------------------------------------------------ loadMtl
\* filepath.Dir of a path given as its sequence of components.
PathDir(path) == SubSeq(path, 1, Len(path) - 1)
\* The path loadMtl opens: the directory of the scene file joined with the
\* referenced name (the embed.FS branch and the filepath.Join branch agree
\* on component sequences).
MtlPath(obj, mtl) == Append(PathDir(obj), mtl)

NewMaterial(name) ==
    [Name |-> name, Ambient |-> <<0, 0, 0>>, Diffuse |-> <<0, 0, 0>>,
     Specular |-> <<0, 0, 0>>, Shininess |-> 0, Dissolve |-> 0,
     OpticalDensity |-> 0, AmbientTexture |-> "", DiffuseTexture |-> "",
     SpecularTexture |-> "", NormalTexture |-> "", ShininessTexture |-> "",
     DissolveTexture |-> "", IlluminationModel |-> 0]

\* The locals of a loadMtl call once the file is open. Beside them the
\* frame records, without the code reading any of it:
\*   blocks    the names given by the accepted newmtl lines that named a
\*             material other than the active one,
\*   preamble  whether a field was set before the first of those lines,
\*   touched   the fields set by lines since the active material was made,
\*   sets      for each material appended, touched at that moment.
MtlInit ==
    [pc |-> "scan", file |-> "open", closes |-> 0,
     materials |-> <<>>, currentMtl |-> NewMaterial("unnamed_mtl"),
     lineNumber |-> 0, done |-> FALSE, retMaterials |-> <<>>, err |-> Nil,
     blocks |-> <<>>, preamble |-> FALSE, touched |-> {}, sets |-> <<>>]

\* return nil, fmt.Errorf("invalid <what> at line %d", lineNumber)
MtlFail(st, what) ==
    RunDefers([st EXCEPT !.pc = "done", !.done = TRUE, !.retMaterials = <<>>,
                         !.err = ErrAt(what, st.lineNumber)])

\* MtlNewmtl that renames the active material in place.
MtlNewmtl_KeepFields(st, split) ==
    IF Len(split) < 2 THEN MtlFail(st, "invalid material name")
    ELSE LET name == split[2][1]
         IN  IF name # st.currentMtl.Name
             THEN [st EXCEPT
                     !.materials = IF st.currentMtl # NewMaterial("unnamed_mtl")
                                   THEN Append(@, st.currentMtl) ELSE @,
                     !.currentMtl.Name = name]
             ELSE st

\* case "newmtl"
MtlNewmtl(st, split) ==
    IF Len(split) < 2 THEN MtlFail(st, "invalid material name")
    ELSE LET name == split[2][1]
         IN  IF name # st.currentMtl.Name
             THEN [st EXCEPT
                     !.materials = IF st.currentMtl # NewMaterial("unnamed_mtl")
                                   THEN Append(@, st.currentMtl) ELSE @,
                     !.currentMtl = NewMaterial(name)]
             ELSE st

\* Ka, Kd, Ks: three floats into a colour field.
MtlColor(st, split, field, what) ==
    IF Len(split) < 4 THEN MtlFail(st, what)
    ELSE LET r == parse3Float(split[2], split[3], split[4])
         IN  IF ~r.ok THEN MtlFail(st, what)
             ELSE [st EXCEPT !.currentMtl[field] = r.val]

\* Ns, Ni, d: one float into a scalar field.
MtlScalar(st, split, field, what) ==
    IF Len(split) < 2 THEN MtlFail(st, what)
    ELSE LET r == parseFloat(split[2])
         IN  IF ~r.ok THEN MtlFail(st, what)
             ELSE [st EXCEPT !.currentMtl[field] = r.val]

\* map_*, bump: the second chunk into a texture-path field.
MtlTexture(st, split, field, what) ==
    IF Len(split) < 2 THEN MtlFail(st, what)
    ELSE [st EXCEPT !.currentMtl[field] = split[2][1]]

MtlIllum(st, split) ==
    IF Len(split) < 2 THEN MtlFail(st, "invalid illum")
    ELSE LET r == parseUint8(split[2])
         IN  IF ~r.ok THEN MtlFail(st, "invalid illum")
             ELSE [st EXCEPT !.currentMtl.IlluminationModel = r.val]

\* The field of Material a directive of the switch of loadMtl assigns.
MtlField(d) ==
    CASE d = W("Ka") -> "Ambient"
      [] d = W("Kd") -> "Diffuse"
      [] d = W("Ks") -> "Specular"
      [] d = W("Ns") -> "Shininess"
      [] d = W("Ni") -> "OpticalDensity"
      [] d = W("d") -> "Dissolve"
      [] d = W("map_Ka") -> "AmbientTexture"
      [] d = W("map_Kd") -> "DiffuseTexture"
      [] d = W("map_Ks") -> "SpecularTexture"
      [] d \in {W("map_Bump"), W("map_bump"), W("bump")} -> "NormalTexture"
      [] d \in {W("map_Ns"), W("map_ns"), W("map_NS")} -> "ShininessTexture"
      [] d = W("map_d") -> "DissolveTexture"
      [] d = W("illum") -> "IlluminationModel"
      [] OTHER -> "none"

\* What the line just handled adds to the record of the input: st is the
\* frame before and r the frame after the loop body ran on a line of
\* directive d with split chunks.
MtlObserve(st, r, d, split) ==
    LET accepted == ~r.done
        renamed  == /\ d = W("newmtl") /\ Len(split) >= 2
                    /\ split[2][1] # st.currentMtl.Name
        sets     == accepted /\ MtlField(d) # "none"
    IN  [r EXCEPT
           !.blocks = IF renamed THEN Append(@, split[2][1]) ELSE @,
           !.preamble = @ \/ (sets /\ st.blocks = <<>>),
           !.touched = IF renamed THEN {}
                       ELSE IF sets THEN @ \cup {MtlField(d)} ELSE @,
           !.sets = IF Len(r.materials) > Len(st.materials)
                    THEN Append(@, st.touched) ELSE @]

\* One iteration of the scan loop of loadMtl on raw line text.
MtlLine(st0, text) ==
    LET st    == [st0 EXCEPT !.lineNumber = @ + 1]
        split == TrimSplit(text)
        d     == split[1]
    IN  IF Len(split) < 1 THEN MtlFail(st, "invalid tokens")
        ELSE MtlObserve(st,
             CASE d = W("newmtl") -> MtlNewmtl(st, split)
               [] d = W("Ka") -> MtlColor(st, split, "Ambient", "invalid Ka")
               [] d = W("Kd") -> MtlColor(st, split, "Diffuse", "invalid Kd")
               [] d = W("Ks") -> MtlColor(st, split, "Specular", "invalid Ks")
               [] d = W("Ns") -> MtlScalar(st, split, "Shininess", "invalid Ns")
               [] d = W("Ni") -> MtlScalar(st, split, "OpticalDensity", "invalid Ni")
               [] d = W("d") -> MtlScalar(st, split, "Dissolve", "invalid d")
               [] d = W("map_Ka") -> MtlTexture(st, split, "AmbientTexture", "invalid map_Ka")
               [] d = W("map_Kd") -> MtlTexture(st, split, "DiffuseTexture", "invalid map_Kd")
               [] d = W("map_Ks") -> MtlTexture(st, split, "SpecularTexture", "invalid map_Ks")
               [] d \in {W("map_Bump"), W("map_bump")} ->
                      MtlTexture(st, split, "NormalTexture", "invalid map_Bump")
               [] d \in {W("map_Ns"), W("map_ns"), W("map_NS")} ->
                      MtlTexture(st, split, "ShininessTexture", "invalid map_Ns")
               [] d = W("bump") -> MtlTexture(st, split, "NormalTexture", "invalid bump")
               [] d = W("map_d") -> MtlTexture(st, split, "DissolveTexture", "invalid map_d")
               [] d = W("illum") -> MtlIllum(st, split)
               [] OTHER -> st, d, split)

\* MtlEnd that, like case "newmtl", leaves out the untouched default.
MtlEnd_SkipPristine(st) ==
    IF st.currentMtl = NewMaterial("unnamed_mtl")
    THEN RunDefers([st EXCEPT !.pc = "done", !.done = TRUE,
                              !.retMaterials = st.materials, !.err = Nil])
    ELSE RunDefers([st EXCEPT !.pc = "done", !.done = TRUE,
                              !.materials = Append(@, st.currentMtl),
                              !.sets = Append(@, st.touched),
                              !.retMaterials = Append(st.materials, st.currentMtl),
                              !.err = Nil])

\* The scanner of loadMtl stops (end of file, or a read error the code
\* never asks about): the active material is appended and returned.
MtlEnd(st) ==
    RunDefers([st EXCEPT !.pc = "done", !.done = TRUE,
                         !.materials = Append(@, st.currentMtl),
                         !.sets = Append(@, st.touched),
                         !.retMaterials = Append(st.materials, st.currentMtl),
                         !.err = Nil])

RECURSIVE MtlScan(_, _)
MtlScan(st, lines) ==
    IF st.done THEN st
    ELSE IF lines = <<>> THEN MtlEnd(st)
    ELSE MtlScan(MtlLine(st, Head(lines)), Tail(lines))

\* loadMtl(dir, obj, mtl): [materials, err], and of how the call went:
\* readFailed, whether the scanner stopped on a read error; opened, whether
\* it opened a stream; closes, how often it closed one. dir maps a path to
\* the lines its reader delivers and whether the reader then fails
\* (readFails) or ends.
loadMtl(dir, obj, mtl) ==
    LET mtlFile == MtlPath(obj, mtl)
    IN  IF mtlFile \notin DOMAIN dir
        THEN [materials |-> <<>>, err |-> ErrNotExist, readFailed |-> FALSE,
              opened |-> FALSE, closes |-> 0]
        ELSE LET st == MtlScan(MtlInit, dir[mtlFile].lines)
             IN  [materials |-> st.retMaterials, err |-> st.err,
                  opened |-> TRUE, closes |-> st.closes,
                  readFailed |-> dir[mtlFile].readFails
                                 /\ st.lineNumber = Len(dir[mtlFile].lines)
                                 /\ st.err = Nil]

\* The frame of a loadMtl call before its dir.Open.
MtlIdle == [MtlInit EXCEPT !.pc = "idle", !.file = "none"]

\* dir.Open(mtlFile) and the declarations that follow it.
MtlOpened(ok) ==
    IF ok THEN MtlInit
    ELSE [MtlIdle EXCEPT !.pc = "done", !.done = TRUE, !.err = ErrNotExist]

\* The locals of LoadObj with the zero value for the active object name.
ObjInit_NoDefaultName ==
    [pc |-> "open", currentModel |-> "", currentMaterial |-> "",
     tmpVertices |-> <<>>, tmpNormals |-> <<>>, tmpTexCoords |-> <<>>,
     tmpFaceElems |-> <<>>, lineNumber |-> 0, models |-> <<>>,
     materials |-> <<>>,
     mtls |-> [materials |-> <<>>, err |-> Nil, readFailed |-> FALSE,
              opened |-> FALSE, closes |-> 0],
     readFailed |-> FALSE, exported |-> <<>>, scanned |-> 0,
     oLines |-> 0, oNames |-> <<>>, active |-> "unnamed_object", vLines |-> 0,
     emitted |-> <<>>, vBeforeO |-> FALSE, geomBeforeO |-> FALSE,
     doubled |-> FALSE,
     file |-> "none", closes |-> 0, mtlOpens |-> 0, mtlCloses |-> 0,
     peakOpen |-> 0,
     outcome |-> "running", retModels |-> <<>>,
     retMaterials |-> <<>>, retErr |-> Nil]

\* ------------------------------------------------------------------ LoadObj
\* The locals of a LoadObj call, its position (pc), what it returned, and
\*   mtls       what the last loadMtl call returned,
\*   readFailed whether the scanner stopped on a read error (s.Err() # nil),
\*   exported   for each model appended, the face list it was exported from,
\*   scanned    how many lines the scanner has delivered,
\*   file, closes  the stream of the scene file (see Close),
\*   mtlOpens, mtlCloses  the streams the loadMtl calls made from this call
\*              have opened and closed,
\*   peakOpen   the most streams that were open at one time,
\*   oLines     how many `o` lines with a name were among them,
\*   oNames     the names those lines gave, in source order,
\*   active     the name the last accepted `o` line gave, "unnamed_object"
\*              before the first,
\*   vLines     how many `v` lines were accepted,
\*   emitted    for each accepted `o` line that named an object other than
\*              the active one after a `v` line had been accepted, the name
\*              that was active before it,
\*   vBeforeO   whether a `v` line was accepted before the first of those,
\*   geomBeforeO whether a v, vn, vt, f or l line was accepted before it.
ObjInit ==
    [pc |-> "open", currentModel |-> "unnamed_object", currentMaterial |-> "",
     tmpVertices |-> <<>>, tmpNormals |-> <<>>, tmpTexCoords |-> <<>>,
     tmpFaceElems |-> <<>>, lineNumber |-> 0, models |-> <<>>,
     materials |-> <<>>,
     mtls |-> [materials |-> <<>>, err |-> Nil, readFailed |-> FALSE,
              opened |-> FALSE, closes |-> 0],
     readFailed |-> FALSE, exported |-> <<>>, scanned |-> 0,
     oLines |-> 0, oNames |-> <<>>, active |-> "unnamed_object", vLines |-> 0,
     emitted |-> <<>>, vBeforeO |-> FALSE, geomBeforeO |-> FALSE,
     doubled |-> FALSE,
     file |-> "none", closes |-> 0, mtlOpens |-> 0, mtlCloses |-> 0,
     peakOpen |-> 0,
     outcome |-> "running", retModels |-> <<>>,
     retMaterials |-> <<>>, retErr |-> Nil]

\* ObjReturnErr that hands back what was accumulated before the failure.
ObjReturnErr_KeepPartial(st, err) ==
    RunDefers([st EXCEPT !.pc = "done", !.outcome = "returned",
                         !.retModels = st.models,
                         !.retMaterials = st.materials, !.retErr = err])

\* return nil, nil, err
ObjReturnErr(st, err) ==
    RunDefers([st EXCEPT !.pc = "done", !.outcome = "returned",
                         !.retModels = <<>>,
                         !.retMaterials = <<>>, !.retErr = err])

\* ObjFail that reports the 0-based index of the line.
ObjFail_ZeroBased(st, what) == ObjReturnErr(st, ErrAt(what, st.lineNumber - 1))

\* return nil, nil, fmt.Errorf("<what> at line %d", lineNumber)
ObjFail(st, what) == ObjReturnErr(st, ErrAt(what, st.lineNumber))

\* An index expression panicked: the call unwinds without returning.
ObjPanic(st) == RunDefers([st EXCEPT !.pc = "done", !.outcome = "panicked"])

\* dir.Open(obj) and the declarations that follow it.
ObjOpen(st, ok) ==
    IF ok THEN [st EXCEPT !.pc = "scan", !.file = "open", !.peakOpen = 1]
    ELSE ObjReturnErr(st, ErrNotExist)

\* CaseO that exports the accumulator at every `o` line.
CaseO_AlwaysExport(st, split) ==
    IF Len(split) < 2 THEN ObjFail(st, "invalid object name")
    ELSE LET name == split[2][1]
             e    == exportModel(st.currentModel, st.tmpVertices, st.tmpNormals,
                                 st.tmpTexCoords, st.tmpFaceElems)
         IN  IF e.panicked THEN ObjPanic(st)
             ELSE [st EXCEPT
                     !.models = Append(@, [e.model EXCEPT
                                    !.MaterialName = st.currentMaterial]),
                     !.exported = Append(@, st.tmpFaceElems),
                     !.currentModel = name]

\* CaseO that takes the new name only when it finalizes a model.
CaseO_NameOnExport(st, split) ==
    IF Len(split) < 2 THEN ObjFail(st, "invalid object name")
    ELSE LET name == split[2][1]
             e    == exportModel(st.currentModel, st.tmpVertices, st.tmpNormals,
                                 st.tmpTexCoords, st.tmpFaceElems)
         IN  IF name # st.currentModel /\ Len(st.tmpVertices) # 0
             THEN IF e.panicked THEN ObjPanic(st)
                  ELSE [st EXCEPT
                          !.models = Append(@, [e.model EXCEPT
                                         !.MaterialName = st.currentMaterial]),
                          !.exported = Append(@, st.tmpFaceElems),
                          !.currentModel = name]
             ELSE st

\* case "o"
CaseO(st, split) ==
    IF Len(split) < 2 THEN ObjFail(st, "invalid object name")
    ELSE LET name == split[2][1]
             e    == exportModel(st.currentModel, st.tmpVertices, st.tmpNormals,
                                 st.tmpTexCoords, st.tmpFaceElems)
         IN  IF name # st.currentModel /\ Len(st.tmpVertices) # 0
             THEN IF e.panicked THEN ObjPanic(st)
                  ELSE [st EXCEPT
                          !.models = Append(@, [e.model EXCEPT
                                         !.MaterialName = st.currentMaterial]),
                          !.exported = Append(@, st.tmpFaceElems),
                          !.currentModel = name]
             ELSE [st EXCEPT !.currentModel = name]

\* CaseV that appends without looking at the parse error.
CaseV_NoParseCheck(st, split) ==
    IF Len(split) < 4 THEN ObjFail(st, "invalid vertex")
    ELSE LET r == parse3Float(split[2], split[3], split[4])
         IN  [st EXCEPT !.tmpVertices = Append(@, r.val)]

\* case "v"
CaseV(st, split) ==
    IF Len(split) < 4 THEN ObjFail(st, "invalid vertex")
    ELSE LET r == parse3Float(split[2], split[3], split[4])
         IN  IF ~r.ok THEN ObjFail(st, "invalid vertex")
             ELSE [st EXCEPT !.tmpVertices = Append(@, r.val)]

\* case "vn"
CaseVn(st, split) ==
    IF Len(split) < 4 THEN ObjFail(st, "invalid vertex normal")
    ELSE LET r == parse3Float(split[2], split[3], split[4])
         IN  IF ~r.ok THEN ObjFail(st, "invalid vertex normal")
             ELSE [st EXCEPT !.tmpNormals = Append(@, r.val)]

\* CaseVt that fills the components not on the line with u.
CaseVt_RepeatU(st, split) ==
    IF Len(split) < 2 THEN ObjFail(st, "invalid texture coordinates")
    ELSE LET u == parseFloat(split[2])
             v == IF Len(split) >= 3 THEN parseFloat(split[3]) ELSE u
             w == IF Len(split) >= 4 THEN parseFloat(split[4]) ELSE u
         IN  IF ~(u.ok /\ v.ok /\ w.ok)
             THEN ObjFail(st, "invalid texture coordinates")
             ELSE [st EXCEPT !.tmpTexCoords = Append(@, <<u.val, v.val, w.val>>)]

\* case "vt"
CaseVt(st, split) ==
    IF Len(split) < 2 THEN ObjFail(st, "invalid texture coordinates")
    ELSE LET u == parseFloat(split[2])
             v == IF Len(split) >= 3 THEN parseFloat(split[3])
                  ELSE [ok |-> TRUE, val |-> 0]
             w == IF Len(split) >= 4 THEN parseFloat(split[4])
                  ELSE [ok |-> TRUE, val |-> 0]
         IN  IF ~(u.ok /\ v.ok /\ w.ok)
             THEN ObjFail(st, "invalid texture coordinates")
             ELSE [st EXCEPT !.tmpTexCoords = Append(@, <<u.val, v.val, w.val>>)]

\* The body of the loop over the three corners of a triangle: the parsed
\* index triples, or the message of the first corner that fails.
RECURSIVE ParseCorners(_, _)
ParseCorners(chunks, acc) ==
    IF chunks = <<>> THEN [msg |-> "nil", arr |-> acc]
    ELSE LET indicesSplit == SplitN3(Head(chunks))
         IN  IF Len(indicesSplit) # 3
             THEN [msg |-> "unsupported face/line element", arr |-> <<>>]
             ELSE LET vIdx  == parseInt(indicesSplit[1])
                      vtIdx == parseInt(indicesSplit[2])
                      vnIdx == parseInt(indicesSplit[3])
                  IN  IF ~(vIdx.ok /\ vtIdx.ok /\ vnIdx.ok)
                      THEN [msg |-> "invalid face/line element", arr |-> <<>>]
                      ELSE ParseCorners(Tail(chunks),
                               Append(acc, <<vIdx.val, vtIdx.val, vnIdx.val>>))

\* CaseF that takes the first three corners of a longer face.
CaseF_AtLeast3(st, split) ==
    IF Len(split) < 2 THEN ObjFail(st, "invalid face/line element")
    ELSE IF Len(split) - 1 < 3
    THEN ObjFail(st, "unsupported face/line element")
    ELSE LET r == ParseCorners(SubSeq(split, 2, 4), <<>>)
         IN  IF r.msg # "nil" THEN ObjFail(st, r.msg)
             ELSE [st EXCEPT !.tmpFaceElems = Append(@, r.arr)]

\* case "f", "l"
CaseF(st, split) ==
    IF Len(split) < 2 THEN ObjFail(st, "invalid face/line element")
    ELSE IF Len(split) - 1 # 3
    THEN ObjFail(st, "unsupported face/line element")
    ELSE LET r == ParseCorners(Tail(split), <<>>)
         IN  IF r.msg # "nil" THEN ObjFail(st, r.msg)
             ELSE [st EXCEPT !.tmpFaceElems = Append(@, r.arr)]

\* The frame of LoadObj after a loadMtl call came back with r: what the
\* call did to streams while the scene stream stayed open.
Called(st, r) ==
    LET n == IF r.opened THEN 1 ELSE 0
    IN  [st EXCEPT !.mtls = r,
                   !.mtlOpens = @ + n,
                   !.mtlCloses = @ + r.closes,
                   !.peakOpen = IF 1 + n > @ THEN 1 + n ELSE @]

\* CaseMtllib that keeps the materials of the last file only.
CaseMtllib_Replace(st, split, dir, obj) ==
    IF Len(split) < 2 THEN ObjFail(st, "invalid external .mtl reference")
    ELSE LET r  == loadMtl(dir, obj, split[2][1])
             cl == Called(st, r)
         IN  IF r.err # Nil
             THEN ObjReturnErr(cl,
                      [msg |-> "failed to load mtl file", line |-> st.lineNumber,
                       cause |-> r.err])
             ELSE [cl EXCEPT !.materials = r.materials]

\* case "mtllib"
CaseMtllib(st, split, dir, obj) ==
    IF Len(split) < 2 THEN ObjFail(st, "invalid external .mtl reference")
    ELSE LET r  == loadMtl(dir, obj, split[2][1])
             cl == Called(st, r)
         IN  IF r.err # Nil
             THEN ObjReturnErr(cl,
                      [msg |-> "failed to load mtl file", line |-> st.lineNumber,
                       cause |-> r.err])
             ELSE [cl EXCEPT !.materials = @ \o r.materials]

\* case "usemtl"
CaseUsemtl(st, split) ==
    IF Len(split) < 2 THEN ObjFail(st, "invalid mtl reference")
    ELSE [st EXCEPT !.currentMaterial = split[2][1]]

\* What the line just handled adds to the record of the input: r is the
\* frame after the loop body ran on a line of directive d with split chunks.
Observe(r, d, split) ==
    LET accepted == r.outcome = "running"
        first    == r.oLines = 0
        named    == d = W("o") /\ Len(split) >= 2
        name     == split[2][1]
    IN  [r EXCEPT
           !.oLines = IF named THEN @ + 1 ELSE @,
           !.oNames = IF named THEN Append(@, name) ELSE @,
           !.emitted = IF named /\ accepted /\ name # r.active /\ r.vLines > 0
                       THEN Append(@, r.active) ELSE @,
           !.active = IF named /\ accepted THEN name ELSE @,
           !.vLines = IF d = W("v") /\ accepted THEN @ + 1 ELSE @,
           !.vBeforeO = @ \/ (d = W("v") /\ accepted /\ first),
           !.geomBeforeO = @ \/ (d \in {W("v"), W("vn"), W("vt"), W("f"), W("l")}
                                 /\ accepted /\ first),
           !.doubled = @ \/ (\E k \in 2..Len(split) : split[k] = Empty)]

\* LoadObjLine whose switch rejects what it has no case for.
LoadObjLine_RejectUnknown(st0, text, dir, obj) ==
    LET st    == [st0 EXCEPT !.lineNumber = @ + 1, !.scanned = @ + 1]
        split == TrimSplit(text)
        d     == split[1]
    IN  IF Len(split) < 1 THEN ObjFail(st, "invalid tokens")
        ELSE Observe(
             CASE d = W("o") -> CaseO(st, split)
               [] d = W("v") -> CaseV(st, split)
               [] d = W("vn") -> CaseVn(st, split)
               [] d = W("vt") -> CaseVt(st, split)
               [] d \in {W("f"), W("l")} -> CaseF(st, split)
               [] d = W("mtllib") -> CaseMtllib(st, split, dir, obj)
               [] d = W("usemtl") -> CaseUsemtl(st, split)
               [] OTHER -> ObjFail(st, "invalid tokens"), d, split)

\* One iteration of the scan loop of LoadObj on raw line text.
LoadObjLine(st0, text, dir, obj) ==
    LET st    == [st0 EXCEPT !.lineNumber = @ + 1, !.scanned = @ + 1]
        split == TrimSplit(text)
        d     == split[1]
    IN  IF Len(split) < 1 THEN ObjFail(st, "invalid tokens")
        ELSE Observe(
             CASE d = W("o") -> CaseO(st, split)
               [] d = W("v") -> CaseV(st, split)
               [] d = W("vn") -> CaseVn(st, split)
               [] d = W("vt") -> CaseVt(st, split)
               [] d \in {W("f"), W("l")} -> CaseF(st, split)
               [] d = W("mtllib") -> CaseMtllib(st, split, dir, obj)
               [] d = W("usemtl") -> CaseUsemtl(st, split)
               [] OTHER -> st, d, split)

\* LoadObjEnd that, like case "o", exports only when a vertex was read.
LoadObjEnd_SkipEmpty(st, failed) ==
    LET e == exportModel(st.currentModel, st.tmpVertices, st.tmpNormals,
                         st.tmpTexCoords, st.tmpFaceElems)
    IN  IF Len(st.tmpVertices) = 0
        THEN RunDefers([st EXCEPT !.readFailed = failed, !.pc = "done",
                        !.outcome = "returned", !.retModels = st.models,
                        !.retMaterials = st.materials, !.retErr = Nil])
        ELSE IF e.panicked THEN ObjPanic([st EXCEPT !.readFailed = failed])
        ELSE RunDefers([st EXCEPT !.readFailed = failed,
                        !.models = Append(@, e.model),
                        !.exported = Append(@, st.tmpFaceElems),
                        !.pc = "done", !.outcome = "returned",
                        !.retModels = Append(st.models, e.model),
                        !.retMaterials = st.materials,
                        !.retErr = Nil])

\* The scanner stops, at end of file or on a read error (failed): the code
\* after the loop exports the active accumulator and returns.
LoadObjEnd(st, failed) ==
    LET e == exportModel(st.currentModel, st.tmpVertices, st.tmpNormals,
                         st.tmpTexCoords, st.tmpFaceElems)
    IN  IF e.panicked THEN ObjPanic([st EXCEPT !.readFailed = failed])
        ELSE RunDefers([st EXCEPT !.readFailed = failed,
                        !.models = Append(@, e.model),
                        !.exported = Append(@, st.tmpFaceElems),
                        !.pc = "done", !.outcome = "returned",
                        !.retModels = Append(st.models, e.model),
                        !.retMaterials = st.materials,
                        !.retErr = Nil])

\* The check LoadModel makes on each model LoadObj returned.
GotInvalidObj(m) ==
    Len(m.Normals) # Len(m.TextureCoords) \/ Len(m.TextureCoords) # Len(m.Vertices)

\* ---------------------------------------------------------------- LoadModel
\* slices.IndexFunc(materials, func(e) { return e.Name == name }): the
\* 0-based index of the first material of that name, or -1.
IndexFunc(materials, name) ==
    IF \E i \in DOMAIN materials : materials[i].Name = name
    THEN (CHOOSE i \in DOMAIN materials :
             /\ materials[i].Name = name
             /\ \A j \in 1..(i - 1) : materials[j].Name # name) - 1
    ELSE -1

\* LoadModel on what LoadObj returned: [err, Meshes, Materials]. loads is
\* the set of texture names loadTexture can load; the buffers and bind
\* groups are taken to be created.
LoadModel(models, objMaterials, err, loads) ==
    IF err # Nil THEN [err |-> err, Meshes |-> <<>>, Materials |-> <<>>]
    ELSE IF \E i \in DOMAIN objMaterials : objMaterials[i].DiffuseTexture \notin loads
    THEN [err |-> ErrNotExist, Meshes |-> <<>>, Materials |-> <<>>]
    ELSE IF \E i \in DOMAIN models : GotInvalidObj(models[i])
    THEN [err |-> [msg |-> "got invalid obj"], Meshes |-> <<>>, Materials |-> <<>>]
    ELSE LET materials == [i \in DOMAIN objMaterials |->
                              [Name |-> objMaterials[i].Name]]
             Idx(m)    == IndexFunc(materials, m.MaterialName)
         IN  [err |-> Nil,
              Meshes |-> [i \in DOMAIN models |->
                            [Name |-> models[i].Name,
                             NumElements |-> Len(models[i].Indices),
                             MaterialIdx |-> IF Idx(models[i]) = -1 THEN 0
                                             ELSE Idx(models[i])]],
              Materials |-> materials]

\* drawModelInstanced: whether model.Materials[mesh.MaterialIdx] panics
\* with an index out of range for some mesh.
DrawPanics(model) ==
    \E i \in DOMAIN model.Meshes :
        ~(0 <= model.Meshes[i].MaterialIdx
          /\ model.Meshes[i].MaterialIdx < Len(model.Materials))

\* -------------------------------------------------------------- GPU handles
\* A frame that holds GPU handles records them in rel: handle h, a number
\* from 1, has been released rel[h] times. 0 is the nil pointer.
Create(fr, field) ==
    [fr EXCEPT ![field] = Len(fr.rel) + 1, !.rel = Append(@, 0)]
\* h.Release() (h.Drop() in the older binding)
Release(fr, h) == [fr EXCEPT !.rel[h] = @ + 1]

\* ReleaseField that leaves the released pointer in the field.
ReleaseField_KeepPointer(fr, field) ==
    IF fr[field] = 0 THEN fr ELSE Release(fr, fr[field])

\* if fr.field != nil { fr.field.Release(); fr.field = nil }
ReleaseField(fr, field) ==
    IF fr[field] = 0 THEN fr
    ELSE [Release(fr, fr[field]) EXCEPT ![field] = 0]

\* -------------------------------------------------------------------- State
\* The examples with a State and a render loop, by source file.
Examples == {"part_002", "part_003", "part_004", "part_005", "part_006"}
\* part_005 (the model viewer) remakes its depth texture in Resize, drops
\* handles with Drop() and clears its queue without dropping it.
HasDepth(ex) == ex = "part_005"

\* The handle fields InitState fills after the swap chain, in its order. A
\* *Texture or *Model field stands for the handles it holds, which are made
\* and destroyed together.
Extras(ex) ==
    CASE ex = "part_002" -> <<"renderPipeline", "vertexBuffer", "indexBuffer">>
      [] ex = "part_003" -> <<"diffuseTexture", "diffuseBindGroup", "cameraBuffer",
                              "instanceBuffer", "cameraBindGroup", "renderPipeline",
                              "vertexBuffer", "indexBuffer">>
      [] ex = "part_004" -> <<>>
      [] ex = "part_005" -> <<"cameraBuffer", "instanceBuffer", "cameraBindGroup",
                              "objModel", "depthTexture", "renderPipeline">>
      [] ex = "part_006" -> <<"renderPipeline", "challengeRenderPipeline">>

\* The same fields in the order Destroy releases them, before the swap
\* chain.
DestroyOrder(ex) ==
    CASE ex = "part_002" -> <<"indexBuffer", "vertexBuffer", "renderPipeline">>
      [] ex = "part_003" -> <<"indexBuffer", "vertexBuffer", "renderPipeline",
                              "cameraBindGroup", "instanceBuffer", "cameraBuffer",
                              "diffuseBindGroup", "diffuseTexture">>
      [] ex = "part_004" -> <<>>
      [] ex = "part_005" -> <<"renderPipeline", "depthTexture", "objModel",
                              "cameraBindGroup", "instanceBuffer", "cameraBuffer">>
      [] ex = "part_006" -> <<"challengeRenderPipeline", "renderPipeline">>

\* The queue is the third handle InitState stores, after surface and
\* device.
QueueHandle == 3

\* The handles a State holds once InitState has succeeded.
InitHandles(ex) == 4 + Len(Extras(ex))

\* s = &State{} of example ex. Beside the fields the frame records:
\*   pc         "start", then "loop" while main polls, "exited" after the
\*              loop was left, "panicked", or "failed" when InitState
\*              returned an error,
\*   ret        what InitState returned: "state" or "nil",
\*   initSize   the size InitState read from the window,
\*   frames     the passes of the render loop so far,
\*   recovered  how often the loop answered a Render error by a call that
\*              changed the State,
\*   ignored    how often it ignored one,
\*   destroys   the calls of Destroy.
StateZero(ex) ==
    [example |-> ex, pc |-> "start", ret |-> "none", err |-> Nil,
     surface |-> 0, swapChain |-> 0, device |-> 0, queue |-> 0,
     renderPipeline |-> 0, challengeRenderPipeline |-> 0, vertexBuffer |-> 0,
     indexBuffer |-> 0, diffuseTexture |-> 0, diffuseBindGroup |-> 0,
     cameraBuffer |-> 0, instanceBuffer |-> 0, cameraBindGroup |-> 0,
     objModel |-> 0, depthTexture |-> 0,
     config |-> <<>>, size |-> <<0, 0>>, rel |-> <<>>,
     initSize |-> <<0, 0>>, frames |-> 0, recovered |-> 0, ignored |-> 0,
     destroys |-> 0]

\* The guarded releases of Destroy for the fields of a list, in order.
RECURSIVE ReleaseAll(_, _)
ReleaseAll(fr, fields) ==
    IF fields = <<>> THEN fr
    ELSE ReleaseAll(ReleaseField(fr, Head(fields)), Tail(fields))

\* The creating calls of InitState for the fields of a list, in order.
RECURSIVE CreateAll(_, _)
CreateAll(fr, fields) ==
    IF fields = <<>> THEN fr
    ELSE CreateAll(Create(fr, Head(fields)), Tail(fields))

\* State.Destroy
StateDestroy(st) ==
    LET a == ReleaseAll(st, DestroyOrder(st.example))
        b == [ReleaseField(a, "swapChain") EXCEPT !.config = <<>>]
        c == IF HasDepth(st.example) THEN [b EXCEPT !.queue = 0]
             ELSE ReleaseField(b, "queue")
        d == ReleaseField(ReleaseField(c, "device"), "surface")
    IN  [d EXCEPT !.destroys = @ + 1]

\* The deferred function of InitState on an error: s.Destroy(); s = nil.
InitFail(st, what) ==
    [StateDestroy(st) EXCEPT !.pc = "failed", !.ret = "nil", !.err = [msg |-> what]]

\* InitState(window): innerSize is window.InnerSize(); failAt names the
\* call that fails: 1 RequestAdapter, 2 RequestDevice, 3 CreateSwapChain,
\* 3 + k the call that makes the k-th field of Extras or a layout or shader
\* made for it, 0 none. A failing call yields nil.
InitState(st, innerSize, failAt) ==
    LET s1 == Create([st EXCEPT !.size = innerSize, !.initSize = innerSize],
                     "surface")
        s2 == Create(Create(s1, "device"), "queue")
        s3 == [s2 EXCEPT !.config = innerSize]
        s4 == Create(s3, "swapChain")
        ex == Extras(st.example)
    IN  CASE failAt = 1 -> InitFail(s1, "RequestAdapter")
          [] failAt = 2 -> InitFail(s1, "RequestDevice")
          [] failAt = 3 -> InitFail(s3, "CreateSwapChain")
          [] failAt > 3 /\ failAt <= 3 + Len(ex) ->
                 InitFail(CreateAll(s4, SubSeq(ex, 1, failAt - 4)), ex[failAt - 3])
          [] OTHER -> [CreateAll(s4, ex) EXCEPT !.pc = "loop", !.ret = "state"]

\* panic(err) in main or below it: the deferred s.Destroy() of main runs
\* while the panic unwinds.
StatePanic(st) == [StateDestroy(st) EXCEPT !.pc = "panicked"]

\* Resize that creates the new swap chain without releasing the old one.
Resize_NoRelease(st, newSize, failAt) ==
    IF newSize[1] > 0 /\ newSize[2] > 0
    THEN LET a == [st EXCEPT !.size = newSize, !.config = newSize]
         IN  IF failAt = 1 THEN StatePanic([a EXCEPT !.swapChain = 0])
             ELSE Create(a, "swapChain")
    ELSE st

\* State.Resize(newSize): failAt names the call that fails, 1
\* CreateSwapChain, 2 CreateDepthTexture (part_005), 0 none.
Resize(st, newSize, failAt) ==
    IF newSize[1] > 0 /\ newSize[2] > 0
    THEN LET a == [st EXCEPT !.size = newSize, !.config = newSize]
             b == IF a.swapChain # 0 THEN Release(a, a.swapChain) ELSE a
             c == Create(b, "swapChain")
             d == [Release(c, c.depthTexture) EXCEPT !.depthTexture = 0]
         IN  IF failAt = 1 THEN StatePanic([b EXCEPT !.swapChain = 0])
             ELSE IF ~HasDepth(st.example) THEN c
             ELSE IF failAt = 2 THEN StatePanic(d)
             ELSE Create(d, "depthTexture")
    ELSE st

\* strings.Contains(errstr, probe): an error text is given as the set of
\* the probed strings that occur in it.
Contains(errstr, probe) == probe \in errstr

\* HandleModels that also reconfigures on a timeout.
HandleModels_ResizeOnTimeout(st, errstr, failAt) ==
    IF \/ Contains(errstr, "Lost") \/ Contains(errstr, "Outdated")
       \/ Contains(errstr, "Timeout")
    THEN [Resize(st, st.size, failAt) EXCEPT !.recovered = @ + 1]
    ELSE StatePanic(st)

\* The switch on the error text in the render loop of part_005.
HandleModels(st, errstr, failAt) ==
    CASE Contains(errstr, "Lost") ->
             [Resize(st, st.size, failAt) EXCEPT !.recovered = @ + 1]
      [] Contains(errstr, "Outdated") ->
             [Resize(st, st.size, failAt) EXCEPT !.recovered = @ + 1]
      [] Contains(errstr, "Timeout") -> [st EXCEPT !.ignored = @ + 1]
      [] OTHER -> StatePanic(st)

\* The switch on the error text in the render loop of the other examples.
HandleBasic(st, errstr) ==
    CASE Contains(errstr, "Surface timed out") -> [st EXCEPT !.ignored = @ + 1]
      [] Contains(errstr, "Surface is outdated") -> [st EXCEPT !.ignored = @ + 1]
      [] Contains(errstr, "Surface was lost") -> [st EXCEPT !.ignored = @ + 1]
      [] OTHER -> StatePanic(st)

\* One pass of the render loop after d.Poll() returned true: s.Render()
\* returns nil (errstr = {}) or an error with text errstr. Render itself
\* leaves every field of the State as it was.
LoopPass(st, failed, errstr, failAt) ==
    LET a == [st EXCEPT !.frames = @ + 1]
    IN  IF ~failed THEN a
        ELSE IF HasDepth(st.example) THEN HandleModels(a, errstr, failAt)
        ELSE HandleBasic(a, errstr)

\* d.Poll() returned false: main returns and its deferred s.Destroy() runs.
LoopExit(st) == [StateDestroy(st) EXCEPT !.pc = "exited"]

\* ------------------------------------------------------------------ Texture
\* t = &Texture{}; pc, ret and destroys as in StateZero.
TextureZero ==
    [pc |-> "start", ret |-> "none", err |-> Nil,
     texture |-> 0, view |-> 0, sampler |-> 0, rel |-> <<>>, destroys |-> 0]

\* Texture.Destroy
TextureDestroy(t) ==
    [ReleaseField(ReleaseField(ReleaseField(t, "sampler"), "view"), "texture")
        EXCEPT !.destroys = @ + 1]

\* The deferred function of TextureFromImage on an error: t.Destroy(); t = nil.
TextureFail(t, what) ==
    [TextureDestroy(t) EXCEPT !.pc = "failed", !.ret = "nil", !.err = [msg |-> what]]

\* TextureFromImage: failAt names the call that fails, 1 CreateTexture,
\* 2 CreateView, 3 CreateSampler, 0 none. A failing call yields nil.
TextureFromImage(t, failAt) ==
    LET t1 == Create(t, "texture")
        t2 == Create(t1, "view")
        t3 == Create(t2, "sampler")
    IN  CASE failAt = 1 -> TextureFail(t, "CreateTexture")
          [] failAt = 2 -> TextureFail(t1, "CreateView")
          [] failAt = 3 -> TextureFail(t2, "CreateSampler")
          [] OTHER -> [t3 EXCEPT !.pc = "held", !.ret = "texture"]

\* ---------------------------------------------------------------------- app
\* a := &app{window: w} of the gamen-windowing example (part_006, second
\* file). android says whether the window is a display.AndroidWindowExt.
\* Beside the fields the frame records pc, frames and ignored as in
\* StateZero, and
\*   misused  whether render or resize has passed a nil or released handle
\*            to the GPU.
AppZero(android) ==
    [android |-> android, pc |-> "start", hasInit |-> FALSE,
     hasSurfaceInit |-> FALSE, instance |-> 0, adapter |-> 0, device |-> 0,
     queue |-> 0, shader |-> 0, surface |-> 0, pipeline |-> 0, swapChain |-> 0,
     config |-> <<>>, rel |-> <<>>, frames |-> 0, ignored |-> 0,
     misused |-> FALSE]

\* The handle fields of an app.
AppHandles ==
    <<"instance", "adapter", "device", "queue", "shader", "surface", "pipeline",
      "swapChain">>

\* app.deinit
AppDeinit(a) ==
    ReleaseAll([a EXCEPT !.hasInit = FALSE],
               <<"shader", "queue", "device", "adapter", "instance">>)

\* AppSurfaceDeinit that leaves hasSurfaceInit as it was.
AppSurfaceDeinit_KeepFlag(a) ==
    LET b == ReleaseField(a, "swapChain")
        c == ReleaseField([b EXCEPT !.config = <<>>], "pipeline")
    IN  ReleaseField(c, "surface")

\* app.surfaceDeinit
AppSurfaceDeinit(a) ==
    LET b == ReleaseField([a EXCEPT !.hasSurfaceInit = FALSE], "swapChain")
        c == ReleaseField([b EXCEPT !.config = <<>>], "pipeline")
    IN  ReleaseField(c, "surface")

\* A panic in main or in a callback the loop runs. deferred says whether
\* main has passed its defer statements: a.deinit() then, and before it
\* a.surfaceDeinit() where main registered it (not on Android).
AppPanic(a, deferred) ==
    LET b == IF deferred /\ ~a.android THEN AppSurfaceDeinit(a) ELSE a
        c == IF deferred THEN AppDeinit(b) ELSE b
    IN  [c EXCEPT !.pc = "panicked"]

\* app.init: failAt names the call that fails, 1 RequestAdapter,
\* 2 RequestDevice, 3 CreateShaderModule, 0 none. main has deferred
\* nothing of the app yet.
AppInit(a, failAt) ==
    LET a1 == Create(a, "instance")
        a2 == Create(a1, "adapter")
        a3 == Create(Create(a2, "device"), "queue")
        a4 == Create(a3, "shader")
    IN  CASE failAt = 1 -> AppPanic(a1, FALSE)
          [] failAt = 2 -> AppPanic(a2, FALSE)
          [] failAt = 3 -> AppPanic(a3, FALSE)
          [] OTHER -> [a4 EXCEPT !.hasInit = TRUE]

\* app.surfaceInit: size is a.window.InnerSize(); failAt names the call
\* that fails, 1 CreateSurface (nil), 2 CreateRenderPipeline,
\* 3 CreateSwapChain, 0 none. deferred as in AppPanic.
AppSurfaceInit(a, size, failAt, deferred) ==
    LET a1 == Create(a, "surface")
        a2 == Create(a1, "pipeline")
        a3 == [a2 EXCEPT !.config = size]
        a4 == Create(a3, "swapChain")
    IN  CASE failAt = 1 -> AppPanic([a EXCEPT !.surface = 0], deferred)
          [] failAt = 2 -> AppPanic([a1 EXCEPT !.pipeline = 0], deferred)
          [] failAt = 3 -> AppPanic([a3 EXCEPT !.swapChain = 0], deferred)
          [] OTHER -> [a4 EXCEPT !.hasSurfaceInit = TRUE]

\* A call on the GPU with the handles in the fields of a list.
Use(a, fields) ==
    IF \E i \in DOMAIN fields : a[fields[i]] = 0 \/ a.rel[a[fields[i]]] > 0
    THEN [a EXCEPT !.misused = TRUE]
    ELSE a

\* app.resize(width, height): failAt = 1 when CreateSwapChain fails.
AppResize(a, width, height, failAt) ==
    IF ~a.hasInit \/ ~a.hasSurfaceInit THEN a
    ELSE IF width > 0 /\ height > 0
    THEN LET b == [a EXCEPT !.config = <<width, height>>]
             c == IF b.swapChain # 0 THEN Release(b, b.swapChain) ELSE b
             d == Use(c, <<"device", "surface">>)
         IN  IF failAt = 1 THEN AppPanic([d EXCEPT !.swapChain = 0], TRUE)
             ELSE Create(d, "swapChain")
    ELSE a

\* app.render: [app, err]. failed says whether a call in it fails, with
\* the text errstr. The handles render makes it releases before it returns.
AppRender(a, failed, errstr) ==
    IF ~a.hasInit \/ ~a.hasSurfaceInit THEN [app |-> a, err |-> FALSE]
    ELSE [app |-> Use(a, <<"swapChain", "device", "pipeline", "queue">>),
          err |-> failed]

\* One pass of the loop of main after d.Poll() returned true.
AppLoopPass(a, failed, errstr) ==
    LET r == AppRender([a EXCEPT !.frames = @ + 1], failed, errstr)
    IN  IF ~r.err THEN r.app
        ELSE CASE Contains(errstr, "Surface timed out") ->
                      [r.app EXCEPT !.ignored = @ + 1]
               [] Contains(errstr, "Surface is outdated") ->
                      [r.app EXCEPT !.ignored = @ + 1]
               [] Contains(errstr, "Surface was lost") ->
                      [r.app EXCEPT !.ignored = @ + 1]
               [] OTHER -> AppPanic(r.app, TRUE)

\* main up to its loop: a.init(), defer a.deinit(), and where the window is
\* not an Android window a.surfaceInit() and defer a.surfaceDeinit().
AppMain(a, size, failInit, failSurface) ==
    LET b == AppInit(a, failInit)
        c == AppSurfaceInit(b, size, failSurface, FALSE)
    IN  IF b.pc = "panicked" THEN b
        ELSE IF a.android THEN [b EXCEPT !.pc = "loop"]
        ELSE IF c.pc = "panicked" THEN [AppDeinit(c) EXCEPT !.pc = "panicked"]
        ELSE [c EXCEPT !.pc = "loop"]

\* d.Poll() returned false: main returns and its deferred calls run.
AppExit(a) ==
    LET b == IF a.android THEN a ELSE AppSurfaceDeinit(a)
    IN  [AppDeinit(b) EXCEPT !.pc = "exited"]

\* ------------------------------------------------------------------- inputs
\* The scene file LoadModel loads, as path components.
ObjPath == <<"res", "cube.obj">>

\* The material files beside the scene file: a.mtl holds two materials,
\* bad.mtl has a Kd line with two numbers after a complete material, the
\* reader of cut.mtl fails after the second line. No other file exists.
ResFS ==
    (<<"res", "a.mtl">> :>
        [lines |-> <<Words(<<"newmtl", "M">>), Words(<<"Kd", "0.5", "1", "2">>),
                     Words(<<"newmtl", "N">>), Words(<<"Ns", "2">>)>>,
         readFails |-> FALSE])
    @@ (<<"res", "bad.mtl">> :>
        [lines |-> <<Words(<<"newmtl", "M">>), Words(<<"newmtl", "N">>),
                     Words(<<"Kd", "0.5", "1">>)>>,
         readFails |-> FALSE])
    @@ (<<"res", "cut.mtl">> :>
        [lines |-> <<Words(<<"newmtl", "M">>), Words(<<"Kd", "0.5", "1", "2">>)>>,
         readFails |-> TRUE])

\* Corner chunks.
c111 == <<"1", "1", "1">>
c211 == <<"2", "1", "1">>
c011 == <<"0", "1", "1">>
c121 == <<"1", "2", "1">>
FaceLine(d, corners) == <<W(d)>> \o corners

\* The raw lines a scene stream may deliver.
Lines ==
    { Words(<<"o", "A">>), Words(<<"o", "B">>), Words(<<"o">>) }
    \cup { Words(<<"v", "1", "1", "1">>), Words(<<"v", "2", "0.5", "0">>),
           Words(<<"v", "1", "1">>), Words(<<"v", "1", "x", "1">>),
           Words(<<"v", "1", "1", "1", "1">>),
           <<W("v"), Empty, W("1"), W("1"), W("1")>> }
    \cup { Words(<<"vn", "0", "0", "1">>), Words(<<"vn", "0", "1">>),
           Words(<<"vn", "0", "0", "x">>) }
    \cup { Words(<<"vt", "0.5">>), Words(<<"vt", "1", "1">>), Words(<<"vt">>),
           Words(<<"vt", "x">>), Words(<<"vt", "1", "x">>) }
    \cup { FaceLine("l", <<c111, c111, c111>>), FaceLine("f", <<c111, c211, c111>>),
           FaceLine("f", <<c011, c111, c111>>),
           FaceLine("f", <<>>), FaceLine("f", <<c111>>),
           FaceLine("l", <<c111, c211>>),
           FaceLine("f", <<c111, c211, c111, c211>>),
           FaceLine("f", <<c111, Empty, c211, c111>>),
           FaceLine("f", <<<<"1", "1">>, c111, c111>>),
           FaceLine("f", <<c111, <<"1", "x", "1">>, c111>>),
           FaceLine("f", <<c111, c111, <<"1", "1", "1", "1">>>>) }
    \cup { Words(<<"mtllib", "a.mtl">>), Words(<<"mtllib", "bad.mtl">>),
           Words(<<"mtllib", "cut.mtl">>), Words(<<"mtllib", "missing.mtl">>),
           Words(<<"mtllib">>) }
    \cup { Words(<<"usemtl", "M">>), Words(<<"usemtl">>) }
    \cup { <<>>, <<Empty, Empty>>, Words(<<"#", "cube">>), Words(<<"s", "off">>),
           <<Empty, W("g"), W("A"), Empty>> }

\* The lines of well-formed scenes: objects, pool entries, triangles.
SceneLines ==
    { Words(<<"o", "A">>), Words(<<"o", "B">>),
      Words(<<"v", "1", "1", "1">>), Words(<<"v", "2", "0.5", "0">>),
      Words(<<"vt", "0.5">>), Words(<<"vt", "1", "1">>),
      Words(<<"vn", "0", "0", "1">>),
      FaceLine("f", <<c111, c211, c121>>), FaceLine("f", <<c111, c111, c211>>) }

\* The raw lines a material stream may deliver.
MtlLines ==
    { Words(<<"newmtl", "M">>), Words(<<"newmtl", "N">>),
      Words(<<"newmtl", "unnamed_mtl">>), Words(<<"newmtl">>) }
    \cup { Words(<<"Kd", "0.5", "1", "2">>), Words(<<"Kd", "0.5", "1">>),
           Words(<<"Ka", "1", "x", "1">>) }
    \cup { Words(<<"Ns", "2">>), Words(<<"Ns", "x">>), Words(<<"d">>) }
    \cup { Words(<<"map_Kd", "t.png">>), Words(<<"bump">>) }
    \cup { Words(<<"illum", "2">>), Words(<<"illum", "256">>) }
    \cup { <<>>, Words(<<"#", "cube">>), Words(<<"Tf", "1">>),
           <<Empty, W("Ke"), Empty>> }

\* The scene streams concurrent calls are given: a triangle; two objects
\* and a material; a material file and a bad vertex; a blank line and a bad
\* texture coordinate; nothing.
Scenes ==
    { <<Words(<<"v", "1", "1", "1">>), Words(<<"vt", "0.5">>),
        Words(<<"vn", "0", "0", "1">>), FaceLine("f", <<c111, c111, c111>>)>>,
      <<Words(<<"o", "A">>), Words(<<"v", "2", "0.5", "0">>),
        Words(<<"o", "B">>), Words(<<"usemtl", "M">>)>>,
      <<Words(<<"mtllib", "a.mtl">>), Words(<<"v", "1", "1">>)>>,
      <<<<>>, Words(<<"vt", "x">>)>>,
      <<>> }

\* The goroutines that call LoadObj.
Callers == 1..MaxCalls

\* The sizes a window reports.
Sizes == {<<0, 0>>, <<1, 0>>, <<1, 1>>, <<2, 1>>}

\* The texts of the errors Render returns, each as the set of the strings
\* the loops probe for that occur in it.
ErrTexts ==
    { {"Surface timed out"}, {"Surface is outdated"}, {"Surface was lost"},
      {"Lost"}, {"Outdated"}, {"Timeout"}, {"Lost", "Timeout"}, {} }

\* The first chunk of a line after trimming: what the switch looks at.
Directive(text) == TrimSplit(text)[1]

\* -------------------------------------------------------------------- state
\* obj     the frame of the LoadObj call that is followed,
\* mtl     the frame of the loadMtl call that is followed on its own,
\* calls   the frames of the LoadObj calls that run at the same time, none
\*         when one call is followed,
\* scenes  the scene stream of each of those calls.
\* state   the State of an example with a render loop, texture a Texture,
\*         app the app of the windowing example; <<>> where none is
\*         followed.
VARIABLES obj, mtl, calls, scenes, state, texture, app
vars == <<obj, mtl, calls, scenes, state, texture, app>>
\* What the parsers do not touch, and what the programs that draw do not.
drawing == <<state, texture, app>>
parsing == <<obj, mtl, calls, scenes>>

Init ==
    /\ obj = ObjInit
    /\ mtl = MtlIdle
    /\ calls = <<>>
    /\ scenes = <<>>
    /\ state = <<>>
    /\ texture = <<>>
    /\ app = <<>>

\* The model follows a call while its pools and face list fit the bounds.
WithinBounds(st) ==
    /\ Len(st.tmpVertices) <= MaxPool
    /\ Len(st.tmpNormals) <= MaxPool
    /\ Len(st.tmpTexCoords) <= MaxPool
    /\ Len(st.tmpFaceElems) <= MaxFaces

\* f, err := dir.Open(obj)
Open ==
    /\ obj.pc = "open"
    /\ mtl.pc = "idle"
    /\ \E ok \in BOOLEAN : obj' = ObjOpen(obj, ok)
    /\ UNCHANGED <<mtl, calls, scenes, drawing>>

\* The lines of the input alphabet whose directive is one of ds.
LinesOf(ds) == {text \in Lines : Directive(text) \in ds}
\* The directives the switch of LoadObj has a case for.
Known == {W("o"), W("v"), W("vn"), W("vt"), W("f"), W("l"), W("mtllib"), W("usemtl")}

\* The input alphabet by directive.
LinesO == LinesOf({W("o")})
LinesV == LinesOf({W("v")})
LinesVn == LinesOf({W("vn")})
LinesVt == LinesOf({W("vt")})
LinesF == LinesOf({W("f"), W("l")})
LinesMtllib == LinesOf({W("mtllib")})
LinesUsemtl == LinesOf({W("usemtl")})
LinesOther == {t \in Lines : Directive(t) \notin Known}

\* s.Scan() can deliver another line.
CanScan == obj.pc = "scan" /\ obj.lineNumber < MaxLines

\* Each Scan action: s.Scan() delivers a raw line of one directive and the
\* loop body runs on it.
ScanO ==
    /\ CanScan
    /\ \E text \in LinesO :
          /\ obj' = LoadObjLine(obj, text, ResFS, ObjPath)
          /\ WithinBounds(obj')
    /\ UNCHANGED <<mtl, calls, scenes, drawing>>

ScanV ==
    /\ CanScan
    /\ \E text \in LinesV :
          /\ obj' = LoadObjLine(obj, text, ResFS, ObjPath)
          /\ WithinBounds(obj')
    /\ UNCHANGED <<mtl, calls, scenes, drawing>>

ScanVn ==
    /\ CanScan
    /\ \E text \in LinesVn :
          /\ obj' = LoadObjLine(obj, text, ResFS, ObjPath)
          /\ WithinBounds(obj')
    /\ UNCHANGED <<mtl, calls, scenes, drawing>>

ScanVt ==
    /\ CanScan
    /\ \E text \in LinesVt :
          /\ obj' = LoadObjLine(obj, text, ResFS, ObjPath)
          /\ WithinBounds(obj')
    /\ UNCHANGED <<mtl, calls, scenes, drawing>>

ScanF ==
    /\ CanScan
    /\ \E text \in LinesF :
          /\ obj' = LoadObjLine(obj, text, ResFS, ObjPath)
          /\ WithinBounds(obj')
    /\ UNCHANGED <<mtl, calls, scenes, drawing>>

ScanMtllib ==
    /\ CanScan
    /\ \E text \in LinesMtllib :
          /\ obj' = LoadObjLine(obj, text, ResFS, ObjPath)
          /\ WithinBounds(obj')
    /\ UNCHANGED <<mtl, calls, scenes, drawing>>

ScanUsemtl ==
    /\ CanScan
    /\ \E text \in LinesUsemtl :
          /\ obj' = LoadObjLine(obj, text, ResFS, ObjPath)
          /\ WithinBounds(obj')
    /\ UNCHANGED <<mtl, calls, scenes, drawing>>

\* A blank line or a line no case of the switch matches.
ScanOther ==
    /\ CanScan
    /\ \E text \in LinesOther :
          /\ obj' = LoadObjLine(obj, text, ResFS, ObjPath)
          /\ WithinBounds(obj')
    /\ UNCHANGED <<mtl, calls, scenes, drawing>>

\* s.Scan() returns false.
ScanEnd ==
    /\ obj.pc = "scan"
    /\ \E failed \in BOOLEAN : obj' = LoadObjEnd(obj, failed)
    /\ UNCHANGED <<mtl, calls, scenes, drawing>>

\* ------------------------------------------------ a loadMtl call on its own
\* f, err := dir.Open(mtlFile) of a loadMtl call followed line by line.
MtlOpen ==
    /\ obj.pc = "open"
    /\ mtl.pc = "idle"
    /\ \E ok \in BOOLEAN : mtl' = MtlOpened(ok)
    /\ UNCHANGED <<obj, calls, scenes, drawing>>

\* s.Scan() of loadMtl can deliver another line.
MtlCanScan == mtl.pc = "scan" /\ mtl.lineNumber < MaxMtlLines

\* The directives of the switch of loadMtl, by the shape of their case.
MtlColors == {W("Ka"), W("Kd"), W("Ks")}
MtlScalars == {W("Ns"), W("Ni"), W("d")}
MtlTextures ==
    {W("map_Ka"), W("map_Kd"), W("map_Ks"), W("map_Bump"), W("map_bump"),
     W("map_Ns"), W("map_ns"), W("map_NS"), W("bump"), W("map_d")}
MtlKnown ==
    {W("newmtl"), W("illum")} \cup MtlColors \cup MtlScalars \cup MtlTextures

\* Each MtlScan action: s.Scan() delivers a raw line of one kind of
\* directive and the loop body of loadMtl runs on it.
MtlScanNewmtl ==
    /\ MtlCanScan
    /\ \E text \in {t \in MtlLines : Directive(t) = W("newmtl")} :
          mtl' = MtlLine(mtl, text)
    /\ UNCHANGED <<obj, calls, scenes, drawing>>

\* Ka, Kd, Ks
MtlScanColor ==
    /\ MtlCanScan
    /\ \E text \in {t \in MtlLines : Directive(t) \in MtlColors} :
          mtl' = MtlLine(mtl, text)
    /\ UNCHANGED <<obj, calls, scenes, drawing>>

\* Ns, Ni, d
MtlScanScalar ==
    /\ MtlCanScan
    /\ \E text \in {t \in MtlLines : Directive(t) \in MtlScalars} :
          mtl' = MtlLine(mtl, text)
    /\ UNCHANGED <<obj, calls, scenes, drawing>>

\* map_*, bump
MtlScanTexture ==
    /\ MtlCanScan
    /\ \E text \in {t \in MtlLines : Directive(t) \in MtlTextures} :
          mtl' = MtlLine(mtl, text)
    /\ UNCHANGED <<obj, calls, scenes, drawing>>

\* illum
MtlScanIllum ==
    /\ MtlCanScan
    /\ \E text \in {t \in MtlLines : Directive(t) = W("illum")} :
          mtl' = MtlLine(mtl, text)
    /\ UNCHANGED <<obj, calls, scenes, drawing>>

\* A blank line, a comment or a line no case of the switch matches.
MtlScanOther ==
    /\ MtlCanScan
    /\ \E text \in {t \in MtlLines : Directive(t) \notin MtlKnown} :
          mtl' = MtlLine(mtl, text)
    /\ UNCHANGED <<obj, calls, scenes, drawing>>

\* s.Scan() of loadMtl returns false.
MtlScanEnd ==
    /\ mtl.pc = "scan"
    /\ mtl' = MtlEnd(mtl)
    /\ UNCHANGED <<obj, calls, scenes, drawing>>

NextMtl ==
    \/ MtlOpen
    \/ MtlScanNewmtl
    \/ MtlScanColor
    \/ MtlScanScalar
    \/ MtlScanTexture
    \/ MtlScanIllum
    \/ MtlScanOther
    \/ MtlScanEnd

Next ==
    \/ Open
    \/ ScanO
    \/ ScanV
    \/ ScanVn
    \/ ScanVt
    \/ ScanF
    \/ ScanMtllib
    \/ ScanUsemtl
    \/ ScanOther
    \/ ScanEnd
    \/ NextMtl

\* One call is followed: LoadObj on a scene stream, its loadMtl calls taken
\* whole, or loadMtl on a material stream.
Spec == Init /\ [][Next]_vars

\* ------------------------------------------------------- concurrent calls
\* A line-processing step of call c among the frames cs that shares the
\* line counter between the calls.
StepCall_SharedCounter(cs, c, text) ==
    LET r == LoadObjLine(cs[c], text, ResFS, ObjPath)
    IN  [d \in DOMAIN cs |->
            IF d = c THEN r ELSE [cs[d] EXCEPT !.lineNumber = r.lineNumber]]

\* A line-processing step of call c among the frames cs: the loop body
\* reads and writes the locals of its own call and nothing else.
StepCall(cs, c, text) ==
    [cs EXCEPT ![c] = LoadObjLine(cs[c], text, ResFS, ObjPath)]

\* Each call is given a scene of its own.
InitTwo ==
    /\ obj = ObjInit
    /\ mtl = MtlIdle
    /\ calls = [c \in Callers |-> ObjInit]
    /\ scenes \in [Callers -> Scenes]
    /\ state = <<>>
    /\ texture = <<>>
    /\ app = <<>>

\* A call opens its scene file.
TwoOpen ==
    /\ \E c \in Callers :
          /\ calls[c].pc = "open"
          /\ \E ok \in BOOLEAN : calls' = [calls EXCEPT ![c] = ObjOpen(@, ok)]
    /\ UNCHANGED <<obj, mtl, scenes, drawing>>

\* s.Scan() of a call delivers the next line of its scene and the loop body
\* runs on it.
TwoLine ==
    /\ \E c \in Callers :
          /\ calls[c].pc = "scan"
          /\ calls[c].scanned < Len(scenes[c])
          /\ calls' = StepCall(calls, c, scenes[c][calls[c].scanned + 1])
    /\ UNCHANGED <<obj, mtl, scenes, drawing>>

\* s.Scan() of a call returns false at the end of its scene.
TwoEnd ==
    /\ \E c \in Callers :
          /\ calls[c].pc = "scan"
          /\ calls[c].scanned = Len(scenes[c])
          /\ \E failed \in BOOLEAN :
                calls' = [calls EXCEPT ![c] = LoadObjEnd(@, failed)]
    /\ UNCHANGED <<obj, mtl, scenes, drawing>>

NextTwo ==
    \/ TwoOpen
    \/ TwoLine
    \/ TwoEnd

\* LoadObj calls on scenes of their own, their steps interleaved.
SpecTwo == InitTwo /\ [][NextTwo]_vars

\* ------------------------------------------------- well-formed scenes, longer
\* s.Scan() delivers an `o` line of a well-formed scene.
SceneObject ==
    /\ obj.pc = "scan"
    /\ obj.lineNumber < MaxSceneLines
    /\ \E text \in {t \in SceneLines : Directive(t) = W("o")} :
          /\ obj' = LoadObjLine(obj, text, ResFS, ObjPath)
          /\ WithinBounds(obj')
    /\ UNCHANGED <<mtl, calls, scenes, drawing>>

\* s.Scan() delivers a v, vn, vt or f line of a well-formed scene.
SceneGeometry ==
    /\ obj.pc = "scan"
    /\ obj.lineNumber < MaxSceneLines
    /\ \E text \in {t \in SceneLines : Directive(t) # W("o")} :
          /\ obj' = LoadObjLine(obj, text, ResFS, ObjPath)
          /\ WithinBounds(obj')
    /\ UNCHANGED <<mtl, calls, scenes, drawing>>

NextScene ==
    \/ Open
    \/ SceneObject
    \/ SceneGeometry
    \/ ScanEnd

\* LoadObj on the scenes made of SceneLines.
SpecScene == Init /\ [][NextScene]_vars

\* ------------------------------------------------------------- render loops
\* The State of a program that has none.
NoState == [StateZero("gamen") EXCEPT !.pc = "none"]
\* The app of a program that has none.
NoApp == [AppZero(FALSE) EXCEPT !.pc = "none"]

\* main of one of the examples starts, and a Texture is about to be made.
InitLoop ==
    /\ obj = ObjInit
    /\ mtl = MtlIdle
    /\ calls = <<>>
    /\ scenes = <<>>
    /\ texture = TextureZero
    /\ \/ /\ state \in {StateZero(ex) : ex \in Examples}
          /\ app = NoApp
       \/ /\ state = NoState
          /\ app \in {AppZero(android) : android \in BOOLEAN}

\* s, err := InitState(w); main panics on an error.
StateInit ==
    /\ state.pc = "start"
    /\ \E innerSize \in Sizes, failAt \in 0..(InitHandles(state.example) - 1) :
          state' = InitState(state, innerSize, failAt)
    /\ UNCHANGED <<parsing, texture, app>>

\* d.Poll() runs the resized callback.
Resized ==
    /\ state.pc = "loop"
    /\ Len(state.rel) < InitHandles(state.example) + MaxHandles
    /\ \E newSize \in Sizes, failAt \in 0..2 :
          state' = Resize(state, newSize, failAt)
    /\ UNCHANGED <<parsing, texture, app>>

\* d.Poll() returns true and the body of the loop runs.
Rendered ==
    /\ state.pc = "loop"
    /\ state.frames < MaxFrames
    /\ Len(state.rel) < InitHandles(state.example) + MaxHandles
    /\ \E failed \in BOOLEAN, errstr \in ErrTexts, failAt \in 0..2 :
          state' = LoopPass(state, failed, errstr, failAt)
    /\ UNCHANGED <<parsing, texture, app>>

\* The close-requested callback destroyed the display: d.Poll() returns
\* false.
Exited ==
    /\ state.pc = "loop"
    /\ state' = LoopExit(state)
    /\ UNCHANGED <<parsing, texture, app>>

\* A further s.Destroy() on a State that was destroyed.
DestroyedAgain ==
    /\ state.pc \in {"exited", "panicked"}
    /\ state.destroys < MaxDestroys
    /\ state' = StateDestroy(state)
    /\ UNCHANGED <<parsing, texture, app>>

\* t, err := TextureFromImage(device, queue, img, label)
TextureMade ==
    /\ texture.pc = "start"
    /\ \E failAt \in 0..3 : texture' = TextureFromImage(texture, failAt)
    /\ UNCHANGED <<parsing, state, app>>

\* t.Destroy() by the owner of a Texture, the first time or again.
TextureDestroyed ==
    /\ texture.pc = "held"
    /\ texture.destroys < MaxDestroys
    /\ texture' = TextureDestroy(texture)
    /\ UNCHANGED <<parsing, state, app>>

\* main of the gamen-windowing example runs up to its loop.
AppStarted ==
    /\ app.pc = "start"
    /\ \E size \in Sizes, failInit \in 0..3, failSurface \in 0..3 :
          app' = AppMain(app, size, failInit, failSurface)
    /\ UNCHANGED <<parsing, state, texture>>

\* d.Poll() runs the surface-created callback of an Android window.
AppSurfaceCreated ==
    /\ app.pc = "loop"
    /\ app.android
    /\ Len(app.rel) < Len(AppHandles) + MaxHandles
    /\ \E size \in Sizes, failAt \in 0..3 :
          app' = AppSurfaceInit(app, size, failAt, TRUE)
    /\ UNCHANGED <<parsing, state, texture>>

\* d.Poll() runs the surface-destroyed callback of an Android window.
AppSurfaceDestroyed ==
    /\ app.pc = "loop"
    /\ app.android
    /\ app' = AppSurfaceDeinit(app)
    /\ UNCHANGED <<parsing, state, texture>>

\* d.Poll() runs the resized callback.
AppResized ==
    /\ app.pc = "loop"
    /\ Len(app.rel) < Len(AppHandles) + MaxHandles
    /\ \E size \in Sizes, failAt \in 0..1 :
          app' = AppResize(app, size[1], size[2], failAt)
    /\ UNCHANGED <<parsing, state, texture>>

\* d.Poll() returns true and the body of the loop runs.
AppRendered ==
    /\ app.pc = "loop"
    /\ app.frames < MaxFrames
    /\ \E failed \in BOOLEAN, errstr \in ErrTexts :
          app' = AppLoopPass(app, failed, errstr)
    /\ UNCHANGED <<parsing, state, texture>>

\* d.Poll() returns false.
AppExited ==
    /\ app.pc = "loop"
    /\ app' = AppExit(app)
    /\ UNCHANGED <<parsing, state, texture>>

NextLoop ==
    \/ AppStarted
    \/ AppSurfaceCreated
    \/ AppSurfaceDestroyed
    \/ AppResized
    \/ AppRendered
    \/ AppExited
    \/ StateInit
    \/ Resized
    \/ Rendered
    \/ Exited
    \/ DestroyedAgain
    \/ TextureMade
    \/ TextureDestroyed

\* An example with a State from InitState to the end of main, or the
\* gamen-windowing example with its app, and a Texture from
\* TextureFromImage on.
SpecLoop == InitLoop /\ [][NextLoop]_vars

\* ------------------------------------------------------------------- claims
Last(seq) == seq[Len(seq)]
\* LoadObj returned without an error.
ReturnedOk == obj.outcome = "returned" /\ obj.retErr = Nil
\* LoadObj returned an error.
ReturnedErr == obj.outcome = "returned" /\ obj.retErr # Nil
\* The distinct index triples among the corners of a face list.
Triples(faces) == {Corners(faces)[k] : k \in DOMAIN Corners(faces)}

\* C1: every model LoadObj has emitted holds exactly one vertex per distinct
\* (position, texcoord, normal) index triple among the corners of the faces
\* exported into it, and a corner whose triple occurred earlier in that model
\* carries the output index of the first occurrence.
C1_DedupByTriple ==
    \A i \in DOMAIN obj.models :
        LET m == obj.models[i]
        IN  \A cs \in {Corners(obj.exported[i])} :
            /\ Len(m.Vertices) = Cardinality(Triples(obj.exported[i]))
            /\ Len(m.Indices) = Len(cs)
            /\ \A j, k \in DOMAIN cs :
                  (j < k /\ cs[j] = cs[k]) => m.Indices[k] = m.Indices[j]

\* A returned model with two distinct triples, one of them used twice.
C1_Witness ==
    /\ ReturnedOk
    /\ \E i \in DOMAIN obj.retModels :
          /\ Len(obj.retModels[i].Vertices) = 2
          /\ Len(obj.retModels[i].Indices) = 3
          /\ obj.retModels[i] = obj.models[i]

\* C2: in every model of a successful LoadObj the three vertex attribute
\* sequences have one length, there are three indices per exported face,
\* every index is below the vertex count, and so LoadModel's "got invalid
\* obj" check does not fire.
C2_Dimensions ==
    ReturnedOk =>
        \A i \in DOMAIN obj.retModels :
            LET m == obj.retModels[i]
            IN  /\ Len(m.Vertices) = Len(m.Normals)
                /\ Len(m.Normals) = Len(m.TextureCoords)
                /\ Len(m.Indices) = 3 * Len(obj.exported[i])
                /\ \A k \in DOMAIN m.Indices : m.Indices[k] < Len(m.Vertices)
                /\ ~GotInvalidObj(m)

\* A successful call that returns two models, the second with a face.
C2_Witness ==
    /\ ReturnedOk
    /\ Len(obj.retModels) = 2
    /\ Len(obj.retModels[2].Indices) = 3
    /\ Len(obj.retModels[2].Vertices) >= 1

\* C3: the model finalized next after `usemtl <name>` carries that name as
\* its MaterialName, whether an `o` line or the end of the stream finalizes
\* it: each step that appends a model gives it the active material name.
C3_UsemtlNamesNextModel ==
    [][Len(obj'.models) > Len(obj.models)
          => Last(obj'.models).MaterialName = obj.currentMaterial]_vars

\* Some corner of the face list names a pool entry that does not exist.
BadCorner(st) ==
    \E idx \in Triples(st.tmpFaceElems) :
        \/ ~InRange(idx[1] - 1, st.tmpVertices)
        \/ ~InRange(idx[2] - 1, st.tmpTexCoords)
        \/ ~InRange(idx[3] - 1, st.tmpNormals)

\* C4: a call that ends with a face corner naming a pool entry that does
\* not exist ends by returning an error, not by a panic.
C4_OutOfRangeIsError ==
    (obj.pc = "done" /\ BadCorner(obj)) => ReturnedErr

\* C5: when LoadObj returns an error it returns no models and no materials,
\* whatever it had accumulated; and a loadMtl call that returns an error
\* returns no materials.
C5_NoPartialResult ==
    /\ ReturnedErr => obj.retModels = <<>> /\ obj.retMaterials = <<>>
    /\ obj.mtls.err # Nil => obj.mtls.materials = <<>>

\* LoadObj fails on a material file whose third line is bad, after it had
\* finalized a model and loaded materials.
C5_Witness ==
    /\ ReturnedErr
    /\ obj.mtls.err = ErrAt("invalid Kd", 3)
    /\ Len(obj.models) >= 1
    /\ Len(obj.materials) >= 1

\* C6: a scan that stops on a read error makes the call fail: LoadObj does
\* not return successfully after a failed read of the scene stream, nor
\* loadMtl after a failed read of the material stream.
C6_ReadFailureFails ==
    /\ (obj.pc = "done" /\ obj.readFailed) => ~ReturnedOk
    /\ obj.mtls.readFailed => obj.mtls.err # Nil

\* C7: from every state of the scan, an `f` or `l` line with 1, 2, 4 or more
\* chunks after the directive makes LoadObj return the error "unsupported
\* face/line element" with that line's 1-based number, and leaves the face
\* list as it was.
C7_FaceArity ==
    obj.pc = "scan" =>
        \A text \in LinesF :
            LET n == Len(TrimSplit(text)) - 1
            IN  \A r \in {LoadObjLine(obj, text, ResFS, ObjPath)} :
                (n >= 1 /\ n # 3) =>
                    /\ r.outcome = "returned"
                    /\ r.retErr = ErrAt("unsupported face/line element",
                                        obj.scanned + 1)
                    /\ r.tmpFaceElems = obj.tmpFaceElems

\* The call has failed on a face line of the wrong arity read after a
\* triangle was accumulated.
C7_Witness ==
    /\ ReturnedErr
    /\ obj.retErr.msg = "unsupported face/line element"
    /\ obj.retErr.line = obj.scanned
    /\ Len(obj.tmpFaceElems) >= 1

\* A `v` or `vn` line with fewer than three chunks after the directive, or
\* with one of the first three not a number.
MalformedTriple(text) ==
    LET split == TrimSplit(text)
    IN  \/ Len(split) - 1 < 3
        \/ \E k \in 2..4 : ~parseFloat(split[k]).ok

\* C8: from every state of the scan, a malformed `v` or `vn` line makes
\* LoadObj return an error with that line's 1-based number, and appends
\* nothing to the position and normal pools.
C8_MalformedVertex ==
    obj.pc = "scan" =>
        \A text \in (LinesV \cup LinesVn) :
            \A r \in {LoadObjLine(obj, text, ResFS, ObjPath)} :
                MalformedTriple(text) =>
                    /\ r.outcome = "returned"
                    /\ r.retErr =
                         ErrAt(IF Directive(text) = W("v") THEN "invalid vertex"
                               ELSE "invalid vertex normal", obj.scanned + 1)
                    /\ r.tmpVertices = obj.tmpVertices
                    /\ r.tmpNormals = obj.tmpNormals

\* The call has failed on a vertex line read after a position and a normal
\* were accumulated.
C8_Witness ==
    /\ ReturnedErr
    /\ obj.retErr.msg = "invalid vertex"
    /\ obj.retErr.line = obj.scanned
    /\ Len(obj.tmpVertices) >= 1
    /\ Len(obj.tmpNormals) >= 1

\* C9 as stated: every error LoadObj returns carries a line number, the
\* error of a failed open of the scene file included.
C9_EveryErrorHasLine ==
    ReturnedErr => "line" \in DOMAIN obj.retErr

\* C9 amended: every error LoadObj returns after it opened the scene file
\* carries the number of lines the scanner had delivered when it was
\* detected (first line 1, blank and ignored lines counted), an error from a
\* material file wrapped with the number of the `mtllib` line; the error of a
\* failed open is returned as it is, without a line.
C9_ScanErrorsHaveLine ==
    ReturnedErr =>
        IF obj.scanned = 0
        THEN obj.retErr = ErrNotExist
        ELSE /\ "line" \in DOMAIN obj.retErr
             /\ obj.retErr.line = obj.scanned
             /\ obj.mtls.err # Nil =>
                   /\ obj.retErr.msg = "failed to load mtl file"
                   /\ obj.retErr.cause = obj.mtls.err

\* The call has failed on its third line, a `mtllib` line whose file has a
\* bad line.
C9_Witness ==
    /\ ReturnedErr
    /\ obj.retErr.msg = "failed to load mtl file"
    /\ obj.retErr.line = 3
    /\ obj.retErr.cause = ErrAt("invalid Kd", 3)

\* C10: a successful LoadObj returns at least one model, the last being the
\* accumulator active at end of stream, also when nothing was read: a
\* stream without lines gives the one model "unnamed_object" with no
\* vertices and no indices.
C10_TrailingModel ==
    ReturnedOk =>
        /\ Len(obj.retModels) >= 1
        /\ Len(obj.retModels) = Len(obj.models)
        /\ Last(obj.retModels).Name = obj.currentModel
        /\ Last(obj.exported) = obj.tmpFaceElems
        /\ obj.tmpFaceElems = <<>> =>
              /\ Last(obj.retModels).Vertices = <<>>
              /\ Last(obj.retModels).Indices = <<>>
        /\ obj.scanned = 0 => obj.retModels = <<NewModel("unnamed_object")>>

\* The call has returned successfully from a stream without lines.
C10_Witness ==
    /\ ReturnedOk
    /\ obj.scanned = 0
    /\ Len(obj.retModels) = 1

\* C11: a successful LoadObj on a scene without an `o` line returns exactly
\* one model, named "unnamed_object"; when the scene's faces are one triangle
\* whose three corners are three distinct index triples, that model has 3
\* vertices and 3 indices.
C11_DefaultObject ==
    (ReturnedOk /\ obj.oLines = 0) =>
        /\ Len(obj.retModels) = 1
        /\ obj.retModels[1].Name = "unnamed_object"
        /\ (/\ Len(obj.exported[1]) = 1
            /\ Cardinality(Triples(obj.exported[1])) = 3) =>
               /\ Len(obj.retModels[1].Vertices) = 3
               /\ Len(obj.retModels[1].Indices) = 3

\* A scene without `o` and with the triangle 1/1/1 2/1/1 1/2/1 has returned.
C11_Witness ==
    /\ ReturnedOk
    /\ obj.oLines = 0
    /\ obj.exported = << << << <<1, 1, 1>>, <<2, 1, 1>>, <<1, 2, 1>> >> >> >>
    /\ Len(obj.retModels[1].Vertices) = 3
    /\ obj.retModels[1].Indices = <<0, 1, 2>>

\* The names of a sequence of models.
Names(ms) == [i \in DOMAIN ms |-> ms[i].Name]

\* C12 as stated: a successful LoadObj returns one model per `o` line, plus
\* one named "unnamed_object" exactly when a v, vn, vt, f or l line came
\* before the first `o` line, each model under the name its `o` line gave.
C12_OnePerDirective ==
    ReturnedOk =>
        Names(obj.retModels) =
            (IF obj.geomBeforeO THEN <<"unnamed_object">> ELSE <<>>) \o obj.oNames

\* C12: a successful LoadObj returns one model for each `o` line that names
\* an object other than the active one after a `v` line was read, under the
\* name that was active before that line, followed by one model for the
\* object active at the end of the stream; so at most one model per `o`
\* line plus one.
C12_OnePerChange ==
    ReturnedOk =>
        /\ Names(obj.retModels) = Append(obj.emitted, obj.active)
        /\ Len(obj.retModels) <= obj.oLines + 1

\* Three `o` lines, two of them before any vertex, have given two models.
C12_Witness ==
    /\ ReturnedOk
    /\ obj.oNames = <<"A", "B", "A">>
    /\ Names(obj.retModels) = <<"B", "A">>

\* A loadMtl call followed on its own has returned without an error.
MtlReturnedOk == mtl.pc = "done" /\ mtl.err = Nil
\* The fields of Material other than Name.
MtlFields == DOMAIN NewMaterial("") \ {"Name"}
\* The fields of material m outside the set fs have their zero values.
ZeroOutside(m, fs) == \A f \in MtlFields \ fs : m[f] = NewMaterial("")[f]

\* C13 as stated: no material a successful loadMtl returns is the default
\* material, named "unnamed_mtl", with no field set.
C13_NoPristineDefault ==
    MtlReturnedOk =>
        \A i \in DOMAIN mtl.retMaterials :
            mtl.retMaterials[i] # NewMaterial("unnamed_mtl")

\* C14: a successful loadMtl returns at least one material, and the last
\* one is the material that was active when the stream ended, the untouched
\* default included.
C14_TrailingMaterial ==
    MtlReturnedOk =>
        /\ Len(mtl.retMaterials) >= 1
        /\ Last(mtl.retMaterials) = mtl.currentMtl
        /\ mtl.retMaterials = mtl.materials
        /\ mtl.lineNumber = 0 =>
              mtl.retMaterials = <<NewMaterial("unnamed_mtl")>>

\* loadMtl has returned from a stream without lines.
C14_Witness ==
    /\ MtlReturnedOk
    /\ mtl.lineNumber = 0
    /\ Len(mtl.retMaterials) = 1

\* C15: every field of the active material that no line has set since the
\* material was made is zero, every appended material has zero in the
\* fields its own block did not set, and a stream of two newmtl blocks with
\* different names, nothing set before the first, returns two materials
\* under those names in source order.
C15_FreshBlocks ==
    /\ ZeroOutside(mtl.currentMtl, mtl.touched)
    /\ \A i \in DOMAIN mtl.materials : ZeroOutside(mtl.materials[i], mtl.sets[i])
    /\ (MtlReturnedOk /\ Len(mtl.blocks) = 2 /\ ~mtl.preamble) =>
           Names(mtl.retMaterials) = mtl.blocks

\* newmtl M, Kd 0.5 1 2, newmtl N, Ns 2 has been loaded.
C15_Witness ==
    /\ MtlReturnedOk
    /\ mtl.blocks = <<"M", "N">>
    /\ mtl.retMaterials =
          <<[NewMaterial("M") EXCEPT !.Diffuse = <<5, 10, 20>>],
            [NewMaterial("N") EXCEPT !.Shininess = 20]>>

\* The number written in chunk k of a split line, 0 when the line has no
\* chunk k.
Component(split, k) == IF Len(split) >= k THEN FloatLit[split[k][1]] ELSE 0

\* C16: from every state of the scan, a `vt` line whose one to three
\* components are numbers appends exactly the triple of the components on
\* the line, 0 for each component not on it, and changes no other pool; a
\* `vt` line with nothing after the directive makes LoadObj return the
\* error "invalid texture coordinates" with that line's 1-based number.
C16_TexCoordDefaults ==
    obj.pc = "scan" =>
        \A text \in LinesVt :
            LET split == TrimSplit(text)
                r     == LoadObjLine(obj, text, ResFS, ObjPath)
            IN  /\ Len(split) = 1 =>
                      /\ r.outcome = "returned"
                      /\ r.retErr = ErrAt("invalid texture coordinates",
                                          obj.scanned + 1)
                /\ (/\ Len(split) >= 2
                    /\ \A k \in 2..Len(split) : parseFloat(split[k]).ok) =>
                      /\ r.outcome = "running"
                      /\ r.tmpTexCoords =
                            Append(obj.tmpTexCoords,
                                   <<Component(split, 2), Component(split, 3),
                                     Component(split, 4)>>)
                      /\ r.tmpVertices = obj.tmpVertices
                      /\ r.tmpNormals = obj.tmpNormals

\* `vt 0.5` and `vt 1 1` have been read.
C16_Witness ==
    /\ obj.pc = "scan"
    /\ obj.tmpTexCoords = << <<5, 0, 0>>, <<10, 10, 0>> >>

\* What the files of ResFS hold, read off their lines: the materials of a
\* file that loads, the error of one that does not.
MatM == [NewMaterial("M") EXCEPT !.Diffuse = <<5, 10, 20>>]
MatN == [NewMaterial("N") EXCEPT !.Shininess = 20]
Holds(name) ==
    CASE name = "a.mtl" -> [materials |-> <<MatM, MatN>>, err |-> Nil]
      [] name = "cut.mtl" -> [materials |-> <<MatM>>, err |-> Nil]
      [] name = "bad.mtl" -> [materials |-> <<>>, err |-> ErrAt("invalid Kd", 3)]
      [] OTHER -> [materials |-> <<>>, err |-> ErrNotExist]

\* C17: from every state of the scan, a `mtllib` line naming a file that
\* loads appends the file's materials, in file order, to the end of the
\* materials gathered so far; one naming a file that cannot be opened or has
\* a bad line makes LoadObj return no models, no materials and the error
\* "failed to load mtl file" with that line's 1-based number around the
\* cause. A successful LoadObj returns the materials so gathered.
C17_MtllibAppends ==
    /\ obj.pc = "scan" =>
          \A text \in LinesMtllib :
              LET split == TrimSplit(text)
                  file  == Holds(split[2][1])
              IN  \A r \in {LoadObjLine(obj, text, ResFS, ObjPath)} :
                  Len(split) >= 2 =>
                    IF file.err = Nil
                    THEN /\ r.outcome = "running"
                         /\ r.materials = obj.materials \o file.materials
                    ELSE /\ r.outcome = "returned"
                         /\ r.retErr = [msg |-> "failed to load mtl file",
                                        line |-> obj.scanned + 1,
                                        cause |-> file.err]
                         /\ r.retMaterials = <<>>
                         /\ r.retModels = <<>>
    /\ ReturnedOk => obj.retMaterials = obj.materials

\* A `mtllib` line has failed on a missing file after two earlier ones had
\* loaded three materials.
C17_Witness ==
    /\ ReturnedErr
    /\ obj.materials = <<MatM, MatM, MatN>>
    /\ obj.retErr.msg = "failed to load mtl file"
    /\ obj.retErr.cause = ErrNotExist
    /\ obj.retErr.line = 3
    /\ obj.retMaterials = <<>>

\* C18: a call that has left, by return or by panic, has closed the stream
\* it opened exactly once, and has closed nothing if its open failed; until
\* then the stream is open and unclosed. Between two lines of the scene
\* every stream a loadMtl call opened has been closed once, so no more than
\* two streams were ever open together and none is open after LoadObj.
C18_StreamsClosed ==
    /\ obj.pc = "open" => (obj.file = "none" /\ obj.closes = 0)
    /\ obj.pc = "scan" => (obj.file = "open" /\ obj.closes = 0)
    /\ obj.pc = "done" =>
          \/ obj.file = "closed" /\ obj.closes = 1
          \/ obj.file = "none" /\ obj.closes = 0 /\ obj.retErr = ErrNotExist
    /\ obj.mtlCloses = obj.mtlOpens
    /\ obj.mtls.closes = (IF obj.mtls.opened THEN 1 ELSE 0)
    /\ obj.peakOpen <= 2
    /\ mtl.pc = "idle" => (mtl.file = "none" /\ mtl.closes = 0)
    /\ mtl.pc = "scan" => (mtl.file = "open" /\ mtl.closes = 0)
    /\ mtl.pc = "done" =>
          \/ mtl.file = "closed" /\ mtl.closes = 1
          \/ mtl.file = "none" /\ mtl.closes = 0 /\ mtl.err = ErrNotExist

\* LoadObj has returned an error from its third line after two loadMtl
\* calls had each opened a stream beside the scene stream.
C18_Witness ==
    /\ ReturnedErr
    /\ obj.scanned = 3
    /\ obj.mtlOpens = 2
    /\ obj.peakOpen = 2
    /\ obj.file = "closed"

\* C19: from every state of either scan, a blank line or a line whose
\* first chunk is no directive of the switch leaves the frame as it is but
\* for the line counter, which it advances by one: no pool, face list,
\* active name, material or result changes and no error is returned.
C19_UnknownIsNoOp ==
    /\ obj.pc = "scan" =>
          \A text \in LinesOther :
              LoadObjLine(obj, text, ResFS, ObjPath) =
                  [obj EXCEPT !.lineNumber = @ + 1, !.scanned = @ + 1]
    /\ mtl.pc = "scan" =>
          \A text \in {t \in MtlLines : Directive(t) \notin MtlKnown} :
              MtlLine(mtl, text) = [mtl EXCEPT !.lineNumber = @ + 1]

\* LoadObj has read two lines and holds what it held before the first.
C19_Witness ==
    obj = [ObjOpen(ObjInit, TRUE) EXCEPT !.lineNumber = 2, !.scanned = 2]

\* LoadObj run alone on the first n lines of a scene: the frame when the
\* scan has handled them or has left on one of them.
RECURSIVE ObjScan(_, _)
ObjScan(st, lines) ==
    IF st.pc # "scan" \/ lines = <<>> THEN st
    ELSE ObjScan(LoadObjLine(st, Head(lines), ResFS, ObjPath), Tail(lines))
\* LoadObj run alone on a whole scene whose reader ends or fails at its end.
LoadObjAlone(lines, failed) ==
    LET st == ObjScan(ObjOpen(ObjInit, TRUE), lines)
    IN  IF st.pc = "scan" THEN LoadObjEnd(st, failed) ELSE st

C21_IgnoreOrPanic == state.recovered = 0

\* The frame after the loop ignored a Render error.
Ignored(st) == [st EXCEPT !.frames = @ + 1, !.ignored = @ + 1]

\* C21: in part_002, part_003, part_004, part_006 and the gamen-windowing
\* app a Render error whose text holds "Surface timed out", "Surface is
\* outdated" or "Surface was lost" is ignored with the State (the app)
\* unchanged, any other panics. In part_005
\* an error whose text holds "Lost" or "Outdated" makes the loop call
\* Resize(s.size), which keeps size and configuration and, when the size is
\* positive, replaces the swap chain; one that holds only "Timeout" is
\* ignored; any other panics.
C21_HandledErrors ==
    /\ state.example # "part_005" => state.recovered = 0
    /\ (app.pc = "loop" /\ app.hasSurfaceInit) =>
          \A errstr \in ErrTexts :
              LET r == AppLoopPass(app, TRUE, errstr)
              IN  IF errstr \cap {"Surface timed out", "Surface is outdated",
                                  "Surface was lost"} # {}
                  THEN r = [app EXCEPT !.frames = @ + 1, !.ignored = @ + 1]
                  ELSE r.pc = "panicked"
    /\ state.pc = "loop" =>
          \A errstr \in ErrTexts, failAt \in 0..2 :
              LET r == LoopPass(state, TRUE, errstr, failAt)
              IN  IF state.example # "part_005"
                  THEN IF errstr \cap {"Surface timed out", "Surface is outdated",
                                       "Surface was lost"} # {}
                       THEN r = Ignored(state)
                       ELSE r.pc = "panicked"
                  ELSE IF errstr \cap {"Lost", "Outdated"} # {}
                       THEN \/ r.pc = "panicked" /\ failAt # 0
                            \/ /\ r.pc = "loop"
                               /\ r.recovered = state.recovered + 1
                               /\ r.size = state.size
                               /\ r.config = state.config
                               /\ (state.size[1] > 0 /\ state.size[2] > 0) =>
                                     /\ r.swapChain # state.swapChain
                                     /\ r.rel[state.swapChain] = 1
                  ELSE IF "Timeout" \in errstr
                       THEN r = Ignored(state)
                       ELSE r.pc = "panicked"

\* The loop of part_005 has answered a Render error by a Resize that
\* replaced the swap chain, and goes on.
C21_Witness ==
    /\ state.example = "part_005"
    /\ state.pc = "loop"
    /\ state.recovered = 1
    /\ state.swapChain > 4
    /\ state.rel[4] = 1

RECURSIVE FirstSeen(_, _)
FirstSeen(seen, cs) ==
    IF cs = <<>> THEN seen
    ELSE FirstSeen(IF \E k \in DOMAIN seen : seen[k] = Head(cs)
                   THEN seen ELSE Append(seen, Head(cs)), Tail(cs))

\* C23: in every model LoadObj has emitted, output index i (from 0, without
\* gaps) belongs to the i-th distinct corner triple (p, t, n) in the order of
\* first encounter, every corner carries the output index of its triple, and
\* vertex i combines positions[p-1], texcoords[t-1] and normals[n-1] of the
\* pools (position p, t, n counted from 1).
C23_FirstEncounterOrder ==
    \A i \in DOMAIN obj.models :
        LET m == obj.models[i]
        IN  \A cs \in {Corners(obj.exported[i])} : \A d \in {FirstSeen(<<>>, cs)} :
            /\ Len(m.Vertices) = Len(d)
            /\ Len(m.TextureCoords) = Len(d)
            /\ Len(m.Normals) = Len(d)
            /\ Len(m.Indices) = Len(cs)
            /\ \A j \in DOMAIN cs :
                  /\ m.Indices[j] >= 0
                  /\ m.Indices[j] < Len(d)
                  /\ d[m.Indices[j] + 1] = cs[j]
            /\ \A k \in DOMAIN d :
                  /\ m.Vertices[k] = obj.tmpVertices[(d[k][1] - 1) + 1]
                  /\ m.TextureCoords[k] = obj.tmpTexCoords[(d[k][2] - 1) + 1]
                  /\ m.Normals[k] = obj.tmpNormals[(d[k][3] - 1) + 1]

\* A model with the face (1,1,1) (2,1,1) (1,1,1): two vertices with
\* different positions, the indices 0, 1, 0.
C23_Witness ==
    \E i \in DOMAIN obj.models :
        /\ obj.exported[i] = << << <<1, 1, 1>>, <<2, 1, 1>>, <<1, 1, 1>> >> >>
        /\ obj.models[i].Indices = <<0, 1, 0>>
        /\ Len(obj.models[i].Vertices) = 2
        /\ obj.models[i].Vertices[1] # obj.models[i].Vertices[2]

\* C24: from every state of the scan, a `v` or `vn` line with other than
\* three chunks after the directive, fewer or more, makes LoadObj return an
\* error that names that line.
C24_ExactlyThree ==
    obj.pc = "scan" =>
        \A text \in { Words(<<"v", "1", "1">>), Words(<<"v", "1", "1", "1", "1">>),
                       Words(<<"vn", "0", "1">>), Words(<<"vn", "0", "0", "1", "1">>) } :
            LET r == LoadObjLine(obj, text, ResFS, ObjPath)
            IN  /\ r.outcome = "returned"
                /\ r.retErr # Nil
                /\ r.retErr.line = obj.lineNumber + 1

\* Well-formed v, vn, vt and f lines but for one doubled space before an
\* operand.
DoubledSpace ==
    { <<W("v"), Empty, W("1"), W("1"), W("1")>>,
      <<W("v"), W("1"), W("1"), Empty, W("1")>>,
      <<W("vn"), Empty, W("0"), W("0"), W("1")>>,
      <<W("vn"), W("0"), Empty, W("0"), W("1")>>,
      <<W("vt"), Empty, W("0.5")>>,
      <<W("vt"), W("1"), Empty, W("1")>>,
      <<W("f"), Empty, c111, c211, c111>>,
      <<W("f"), c111, Empty, c211, c111>> }

\* C25: the doubled space of a line stays as an empty token in its operand
\* position; from every state of the scan a v, vn or vt line with a doubled
\* space before an operand makes LoadObj return an error with that line's
\* number, and an f line with one counts four corners and returns
\* "unsupported face/line element" with that line's number.
C25_NoCollapse ==
    obj.pc = "scan" =>
        \A text \in DoubledSpace :
            LET split == TrimSplit(text)
            IN  \A r \in {LoadObjLine(obj, text, ResFS, ObjPath)} :
                /\ Len(split) = Len(text)
                /\ \E k \in 2..Len(split) : split[k] = Empty
                /\ r.outcome = "returned"
                /\ r.retErr # Nil
                /\ r.retErr.line = obj.scanned + 1
                /\ r.retModels = <<>>
                /\ split[1] = W("f") =>
                      /\ Len(split) - 1 = 4
                      /\ r.retErr.msg = "unsupported face/line element"

\* LoadObj has returned an error for its third line, a line with a doubled
\* space, after it had accepted a position.
C25_Witness ==
    /\ ReturnedErr
    /\ obj.doubled
    /\ obj.retErr.line = 3
    /\ obj.scanned = 3
    /\ Len(obj.tmpVertices) >= 1

\* The number of indices in a list of models.
RECURSIVE SumIndices(_)
SumIndices(ms) ==
    IF ms = <<>> THEN 0 ELSE Len(Head(ms).Indices) + SumIndices(Tail(ms))

\* C26: no face is exported into two models: the models a successful
\* LoadObj returns hold together three indices per accepted face line.
C26_FacesExportedOnce ==
    ReturnedOk => SumIndices(obj.retModels) = 3 * Len(obj.tmpFaceElems)

\* The texture names of a list of materials.
DiffuseNames(ms) == {ms[i].DiffuseTexture : i \in DOMAIN ms}

\* C27: whatever LoadObj returns and whichever textures load, every mesh of
\* a Model that LoadModel returns has 0 <= MaterialIdx < len(Materials), and
\* drawModelInstanced does not index Materials out of range.
C27_MaterialIdxInRange ==
    ReturnedOk =>
        \A loads \in SUBSET DiffuseNames(obj.retMaterials) :
            LET r == LoadModel(obj.retModels, obj.retMaterials, obj.retErr, loads)
            IN  r.err = Nil =>
                    /\ \A i \in DOMAIN r.Meshes :
                          /\ 0 <= r.Meshes[i].MaterialIdx
                          /\ r.Meshes[i].MaterialIdx < Len(r.Materials)
                    /\ ~DrawPanics(r)

\* The handles render and resize pass to the GPU.
AppUsed == <<"surface", "pipeline", "swapChain", "device", "queue">>

\* C28: while the event loop of the gamen-windowing app runs, whatever the
\* order of surface-created, surface-destroyed, resize and render events:
\* render and resize never pass a nil or released handle to the GPU;
\* whenever hasSurfaceInit is true, hasInit is true and surface, pipeline,
\* config and swap chain are non-nil and not released; and while
\* hasSurfaceInit is false resize and render leave the app as it is and
\* render returns nil.
C28_GuardedSurface ==
    (app.pc = "loop") =>
        /\ ~app.misused
        /\ app.hasInit
        /\ app.hasSurfaceInit =>
              /\ app.config # <<>>
              /\ \A i \in DOMAIN AppUsed :
                    /\ app[AppUsed[i]] # 0
                    /\ app.rel[app[AppUsed[i]]] = 0
        /\ ~app.hasSurfaceInit =>
              /\ \A size \in Sizes, failAt \in 0..1 :
                    AppResize(app, size[1], size[2], failAt) = app
              /\ \A failed \in BOOLEAN, errstr \in ErrTexts :
                    AppRender(app, failed, errstr) = [app |-> app, err |-> FALSE]

\* On Android the surface was created, destroyed and created again, and a
\* frame was rendered before and after: the app holds its third swap chain
\* or a later one.
C28_Witness ==
    /\ app.pc = "loop"
    /\ app.android
    /\ app.hasSurfaceInit
    /\ app.frames = 2
    /\ \E h \in DOMAIN app.rel : h < app.surface /\ app.rel[h] = 1
    /\ app.rel[app.swapChain] = 0

\* The handles of a frame that were created and not released.
Live(fr) == {h \in DOMAIN fr.rel : fr.rel[h] = 0}

\* C29: while the loop of an example runs, Resize with a width or height of
\* 0 leaves the State as it is; the stored size equals (config.Width,
\* config.Height), and both are positive if they were positive when
\* InitState read them; the State holds a swap chain, and that swap
\* chain is the only one that is live: every swap chain made before it
\* has been released, once.
C29_ResizeKeepsOneSwapChain ==
    state.pc = "loop" =>
        /\ \A newSize \in Sizes, failAt \in 0..2 :
              (newSize[1] = 0 \/ newSize[2] = 0) =>
                  Resize(state, newSize, failAt) = state
        /\ state.size = state.config
        /\ (state.initSize[1] > 0 /\ state.initSize[2] > 0) =>
              (state.size[1] > 0 /\ state.size[2] > 0)
        /\ state.swapChain # 0
        /\ state.swapChain \in Live(state)
        /\ \A h \in DOMAIN state.rel : state.rel[h] <= 1
        /\ Cardinality(Live(state)) = InitHandles(state.example)

\* The State of part_004 after two Resize calls that took effect: the size
\* is that of the second, the first two swap chains are released and the
\* third is held.
C29_Witness ==
    /\ state.example = "part_004"
    /\ state.pc = "loop"
    /\ state.initSize = <<1, 1>>
    /\ state.size = <<2, 1>>
    /\ state.swapChain = 6
    /\ state.rel = <<0, 0, 0, 1, 1, 0>>

\* The handle fields of a State.
StateFields ==
    {"surface", "swapChain", "device", "queue", "renderPipeline",
     "challengeRenderPipeline", "vertexBuffer", "indexBuffer", "diffuseTexture",
     "diffuseBindGroup", "cameraBuffer", "instanceBuffer", "cameraBindGroup",
     "objModel", "depthTexture"}
\* The handles Destroy leaves unreleased: the queue of part_005, whose
\* field it only clears.
Kept(st) ==
    IF HasDepth(st.example) /\ Len(st.rel) >= QueueHandle THEN {QueueHandle} ELSE {}

====
